---- MODULE Spec2Model ----
(***************************************************************************)
(* A model of aeon's Ordinal Temporal Dictionary Ensemble                  *)
(* (aeon/classification/ordinal_classification/_ordinal_tde.py).           *)
(*                                                                         *)
(* One estimator object exists per behaviour.  Its constructor parameters  *)
(* and the data handed to fit are chosen in Init.  OrdinalTDE._fit is      *)
(* modelled statement by statement: the prologue, one action per           *)
(* iteration of the search loop and the epilogue.  The symbolic transform  *)
(* (SFA), the kernel-ridge surrogate and the random number generator are   *)
(* collaborators outside the file: what they return is a nondeterministic  *)
(* choice over the values their callers can receive.                       *)
(*                                                                         *)
(* Floating point numbers are modelled by exact rationals <<num, den>> in  *)
(* lowest terms; <<0, 0>> stands for NaN (numpy's 0/0).  Case indices and  *)
(* list positions are 1-based here where Python's are 0-based, except      *)
(* highest_mae_idx and num_classifiers, which keep the code's values.      *)
(***************************************************************************)
EXTENDS Integers, Sequences, FiniteSets, TLC

(***************************************************************************)
(* Bounds of the model.                                                    *)
(***************************************************************************)
\* class labels are 0..MaxLabel
MaxLabel == 1
\* max_ensemble_size ranges over 1..MaxEnsembleSize
MaxEnsembleSize == 2
\* length of every series handed to fit
NTimepoints == 4
\* words of a bag are 1..MaxWord, each counted up to MaxCount times
MaxWord == 2
MaxCount == 2
\* collections handed to _preprocess_collection have 1..MaxShape cases of
\* 1..MaxShape time points, in at most MaxCalls calls on one estimator
MaxShape == 2
MaxCalls == 3

(***************************************************************************)
(* Rational arithmetic standing for the code's float arithmetic.           *)
(***************************************************************************)
RECURSIVE GCD(_, _)
GCD(a, b) == IF b = 0 THEN a ELSE GCD(b, a % b)

Abs(x) == IF x < 0 THEN -x ELSE x

NaN == <<0, 0>>

Rat(n, d) == IF d = 0 THEN NaN
             ELSE LET g == GCD(Abs(n), Abs(d))
                      s == IF d < 0 THEN -1 ELSE 1
                  IN  <<s * (n \div g), s * (d \div g)>>

IsNaN(a) == a[2] = 0

Zero == Rat(0, 1)
One == Rat(1, 1)

LCM(a, b) == (a \div GCD(a, b)) * b

RatAdd(a, b) ==
    IF IsNaN(a) \/ IsNaN(b) THEN NaN
    ELSE LET l == LCM(a[2], b[2])
         IN  Rat(a[1] * (l \div a[2]) + b[1] * (l \div b[2]), l)

\* a / b, with numpy's 0/0 = nan
RatDiv(a, b) ==
    IF IsNaN(a) \/ IsNaN(b) THEN NaN
    ELSE LET l == LCM(a[2], b[2])
         IN  Rat(a[1] * (l \div a[2]), b[1] * (l \div b[2]))

\* a < b; any comparison with NaN is false
RatLt(a, b) == ~IsNaN(a) /\ ~IsNaN(b) /\ a[1] * b[2] < b[1] * a[2]

RatAbs(a) == <<Abs(a[1]), a[2]>>

\* a - b, a * b and a <= b
RatSub(a, b) == RatAdd(a, <<-b[1], b[2]>>)

RatMul(a, b) ==
    IF IsNaN(a) \/ IsNaN(b) THEN NaN ELSE Rat(a[1] * b[1], a[2] * b[2])

RatLe(a, b) == ~IsNaN(a) /\ ~IsNaN(b) /\ a[1] * b[2] <= b[1] * a[2]

RECURSIVE RatSum(_)
RatSum(s) == IF s = <<>> THEN Zero ELSE RatAdd(Head(s), RatSum(Tail(s)))

Pow4(x) == x * x * x * x

RECURSIVE SumInts(_)
SumInts(s) == IF s = <<>> THEN 0 ELSE Head(s) + SumInts(Tail(s))

Range(s) == {s[i] : i \in DOMAIN s}

(***************************************************************************)
(* OrdinalTDE.__init__: the fixed search options.                          *)
(***************************************************************************)
_word_lengths == <<16, 14, 12, 10, 8>>
_norm_options == <<TRUE, FALSE>>
_levels == <<1, 2, 3>>
_igb_options == <<TRUE>>

\* The model's search enumerates the first word length and the first level
\* only, with both normalise options: two candidates per window size.
WordLengthsSearched == <<_word_lengths[1]>>
LevelsSearched == <<_levels[1]>>

\* contract_max_n_parameter_samples = np.inf
np_inf == -1

\* a < b where b may be np.inf
LtInf(a, b) == b = np_inf \/ a < b

\* the value returned by _individual_train_mae as the early-reject signal,
\* and the threshold passed to it while the pool is not full
REJECT_MAE == 100

VARIABLES
    cfg,                  \* the constructor parameters of the estimator
    data,                 \* X.shape and y of the collection handed to fit
    pc,                   \* configured, fitting, estimating, fitted, failed
    call,                 \* the public method running: none, fit, fit_predict_proba
    is_fitted,            \* BaseEstimator.is_fitted
    estimators_,          \* retained members
    weights_,             \* their weights
    n_estimators_,
    _weight_sum,
    _min_window,
    _prev_parameters_x,   \* surrogate history: parameter vectors
    _prev_parameters_y,   \* surrogate history: recorded MAEs
    possible_parameters,  \* remaining candidates
    num_classifiers,
    highest_mae,
    highest_mae_idx,
    train_time,           \* seconds since the loop started
    result,               \* what the last public call returned or raised
    test_bag,             \* _test_nn: the word bag compared
    bag,                  \* _test_nn: the stored word bag it is compared with
    sim,                  \* the similarities histogram_intersection returned
    twin,                 \* a second estimator of the same configuration and
                          \* random_state, fitted on the same data
    search_log,           \* per evaluated candidate: the selection branch
                          \* taken and the MAE before the cap
    base,                 \* a BaseCollectionEstimator
    adaptor,              \* a TabularToSeriesAdaptor and its blueprint
    member                \* an IndividualOrdinalTDE with its stored bags

tdeVars == <<cfg, data, pc, call, is_fitted, estimators_, weights_,
             n_estimators_, _weight_sum, _min_window, _prev_parameters_x,
             _prev_parameters_y, possible_parameters, num_classifiers,
             highest_mae, highest_mae_idx, train_time, result, search_log>>

bagVars == <<test_bag, bag, sim>>

glueVars == <<base, adaptor, member>>

vars == <<tdeVars, bagVars, twin, glueVars>>

(***************************************************************************)
(* Inputs: constructor parameters and training data.                       *)
(***************************************************************************)
Labels == 0..MaxLabel

SECONDS_PER_MINUTE == 60

\* what time.time() - start_time can read at the end of an iteration; the
\* loop only compares it with time_limit, so readings past a limit are
\* recorded as that limit
ClockReadings(limit) == {t \in {0, SECONDS_PER_MINUTE} : t <= limit}

Config(nps, mes, rsp, tl, cmax, mw, prop, tem) ==
    [n_parameter_samples |-> nps, max_ensemble_size |-> mes,
     randomly_selected_params |-> rsp, time_limit_in_minutes |-> tl,
     contract_max_n_parameter_samples |-> cmax, min_window |-> mw,
     max_win_len_prop |-> prop, train_estimate_method |-> tem]

\* min_window below, at and above max_window = NTimepoints
MinWindows == (NTimepoints - 1)..(NTimepoints + 1)

\* search sized by n_parameter_samples (time_limit_in_minutes = 0): a budget
\* of one candidate, and a budget of three candidates of which the first is
\* drawn at random
SizeConfigs ==
    {Config(1, mes, 3, 0, np_inf, mw, One, "loocv") :
        mes \in 1..MaxEnsembleSize, mw \in MinWindows}
    \cup
    {Config(3, MaxEnsembleSize, 1, 0, np_inf, mw, One, "loocv") :
        mw \in MinWindows}

\* get_test_params: the default set, and the contracting set with a limit of
\* one minute and of two candidates
TestConfigs ==
    {Config(5, 2, 3, 0, np_inf, mw, prop, "loocv") :
        mw \in MinWindows \ {NTimepoints - 1}, prop \in {One, Rat(1, 2)}}
    \cup
    {Config(250, 2, 3, 1, 2, mw, One, "loocv") : mw \in MinWindows}
    \cup
    {Config(250, 2, 3, 1, np_inf, mw, One, "loocv") :
        mw \in MinWindows \ {NTimepoints - 1}}

\* the other train estimate methods of fit_predict_proba
MethodConfigs ==
    {Config(2, mes, 3, 0, np_inf, mw, One, tem) :
        mes \in 1..MaxEnsembleSize, mw \in MinWindows,
        tem \in {"OOB", "bogus"}}

Configs == SizeConfigs \cup TestConfigs \cup MethodConfigs

\* label vectors of at least two classes: cases ordered by label, the lowest
\* label being 0
LabelVectors(n) ==
    {y \in [1..n -> Labels] :
        /\ y[1] = 0
        /\ y[n] > 0
        /\ \A i \in 1..(n - 1) : y[i] <= y[i + 1]}

Dataset(y) == [n_cases |-> Len(y), n_timepoints |-> NTimepoints, y |-> y]

\* three cases, the fewest fit can work with: every subsample holds
\* int(3 * 0.7) = 2 cases, so each case has a neighbour
CaseCounts == {3}

\* predict and predict_proba are asked about one case: every row of their
\* answer is computed from that case's votes alone
TestCaseCounts == {1}

Datasets == {Dataset(y) : y \in UNION {LabelVectors(n) : n \in CaseCounts}}

(***************************************************************************)
(* BaseClassifier.fit: classes_, n_classes_ and _class_dictionary.         *)
(***************************************************************************)
classes_ == Range(data.y)
n_classes_ == Cardinality(classes_)
\* position of a label in the sorted classes_, 1-based
_class_dictionary(label) == Cardinality({c \in classes_ : c <= label})

(***************************************************************************)
(* Python built-ins used by _fit.                                          *)
(***************************************************************************)
\* int(a / b) for b > 0: truncation towards zero
TruncDiv(a, b) == IF a >= 0 THEN a \div b ELSE -((-a) \div b)

\* list(range(start, stop, step)) for step >= 1
PyRange(start, stop, step) ==
    LET count == IF stop > start THEN (stop - start + step - 1) \div step ELSE 0
    IN  [k \in 1..count |-> start + (k - 1) * step]

\* a pop that takes position i and drops the head of the list
PopHead(s, i) == Tail(s)

\* list.pop(i) leaves the list without position i (1-based here)
Pop(s, i) == [k \in 1..(Len(s) - 1) |-> IF k < i THEN s[k] ELSE s[k + 1]]

\* rng.choice(n, size=k, replace=False): any ordered draw of k distinct cases
Subsamples(n, k) ==
    {s \in [1..k -> 1..n] : \A i, j \in 1..k : i # j => s[i] # s[j]}

(***************************************************************************)
(* OrdinalTDE._unique_parameters                                           *)
(***************************************************************************)
_unique_parameters(min_window, max_window, win_inc) ==
    LET wins == PyRange(min_window, max_window + 1, win_inc)
        Ni == Len(_igb_options)
        Nv == Len(LevelsSearched)
        Nl == Len(WordLengthsSearched)
        Nw == Len(wins)
        Nn == Len(_norm_options)
    IN  [k \in 1..(Nn * Nw * Nl * Nv * Ni) |->
            LET z == k - 1
            IN  <<wins[((z \div (Ni * Nv * Nl)) % Nw) + 1],
                  WordLengthsSearched[((z \div (Ni * Nv)) % Nl) + 1],
                  _norm_options[(z \div (Ni * Nv * Nl * Nw)) + 1],
                  LevelsSearched[((z \div Ni) % Nv) + 1],
                  _igb_options[(z % Ni) + 1]>>]

(***************************************************************************)
(* OrdinalTDE._worst_ensemble_mae: first member with the largest MAE       *)
(* above 0.0, as (worst_mae, worst_mae_idx) with the code's 0-based index. *)
(***************************************************************************)
RECURSIVE WorstScan(_, _, _, _)
WorstScan(ests, c, worst_mae, worst_mae_idx) ==
    IF c > Len(ests) THEN <<worst_mae, worst_mae_idx>>
    ELSE IF RatLt(worst_mae, ests[c]._mae)
         THEN WorstScan(ests, c + 1, ests[c]._mae, c - 1)
         ELSE WorstScan(ests, c + 1, worst_mae, worst_mae_idx)

\* a scan that stops at the first member
_worst_ensemble_first(ests) == <<ests[1]._mae, 0>>

_worst_ensemble_mae(ests) == WorstScan(ests, 1, Zero, 0)

(***************************************************************************)
(* OrdinalTDE._individual_train_mae                                        *)
(***************************************************************************)
\* what tde._train_predict(i) can return for every i of the subsample: the
\* label of some other case of the subsample
TrainPredictions(y_subsample) ==
    {c \in [DOMAIN y_subsample -> Range(y_subsample)] :
        \A i \in DOMAIN y_subsample :
            \E n \in DOMAIN y_subsample : n # i /\ c[i] = y_subsample[n]}

AbsoluteError(y, c) == SumInts([i \in DOMAIN y |-> Abs(y[i] - c[i])])

\* a cap that also takes an MAE equal to the threshold
_individual_train_mae_capped_at_equal(y, c, train_size, highest) ==
    LET mae == Rat(AbsoluteError(y, c), train_size)
    IN  IF ~RatLt(mae, highest) THEN Rat(REJECT_MAE, 1) ELSE mae

_individual_train_mae(y, c, train_size, highest) ==
    LET mae == Rat(AbsoluteError(y, c), train_size)
    IN  IF RatLt(highest, mae) THEN Rat(REJECT_MAE, 1) ELSE mae

(***************************************************************************)
(* The member weight, _fit lines 339-343.                                  *)
(***************************************************************************)
MemberWeight(mae) ==
    LET a == RatAbs(mae)
        w == Rat(a[2], a[2] + a[1])
    IN  IF ~RatLt(w, Zero) THEN <<Pow4(w[1]), Pow4(w[2])>>
        ELSE Rat(1, 1000000000)

(***************************************************************************)
(* The state after OrdinalTDE.__init__ (lines 173-206).                    *)
(***************************************************************************)
NoResult == [kind |-> "none", rows |-> <<>>, divisors |-> <<>>, error |-> ""]

Raised(name) == [kind |-> "error", rows |-> <<>>, divisors |-> <<>>, error |-> name]

\* no second estimator
NoTwin == <<>>

Unfitted ==
    /\ pc = "configured"
    /\ call = "none"
    /\ is_fitted = FALSE
    /\ estimators_ = <<>>
    /\ weights_ = <<>>
    /\ n_estimators_ = 0
    /\ _weight_sum = Zero
    /\ _min_window = <<>>
    /\ _prev_parameters_x = <<>>
    /\ _prev_parameters_y = <<>>
    /\ possible_parameters = <<>>
    /\ num_classifiers = 0
    /\ highest_mae = Zero
    /\ highest_mae_idx = 0
    /\ train_time = 0
    /\ result = NoResult
    /\ search_log = <<>>

\* no such object in the behaviour
NoObject == <<>>

NoGlue ==
    /\ base = NoObject
    /\ adaptor = NoObject
    /\ member = NoObject

Init ==
    /\ cfg \in Configs
    /\ data \in Datasets
    /\ Unfitted
    /\ test_bag = <<>>
    /\ bag = <<>>
    /\ sim = <<>>
    /\ twin = NoTwin
    /\ NoGlue

(***************************************************************************)
(* OrdinalTDE._fit, lines 232-289: everything before the search loop.      *)
(***************************************************************************)
max_window == TruncDiv(data.n_timepoints * cfg.max_win_len_prop[1],
                       cfg.max_win_len_prop[2])

win_inc ==
    LET inc == TruncDiv(4 * (max_window - cfg.min_window), data.n_timepoints)
    IN  IF inc < 1 THEN 1 ELSE inc

subsample_size == (data.n_cases * 7) \div 10

\* a limit of one minute whatever the configuration
time_limit_one_minute == SECONDS_PER_MINUTE

time_limit == cfg.time_limit_in_minutes * SECONDS_PER_MINUTE

\* a count budget that stays in force under a time limit
n_parameter_samples_kept == cfg.n_parameter_samples

\* the locals n_parameter_samples and contract_max_n_parameter_samples
n_parameter_samples ==
    IF time_limit > 0 THEN 0 ELSE cfg.n_parameter_samples

contract_max_n_parameter_samples ==
    IF time_limit > 0 THEN cfg.contract_max_n_parameter_samples ELSE np_inf

FitPrologue ==
    /\ estimators_' = <<>>
    /\ weights_' = <<>>
    /\ _prev_parameters_x' = <<>>
    /\ _prev_parameters_y' = <<>>
    /\ _min_window' = IF cfg.min_window >= max_window
                      THEN <<max_window>> ELSE _min_window
    /\ possible_parameters' =
           _unique_parameters(cfg.min_window, max_window, win_inc)
    /\ num_classifiers' = 0
    /\ highest_mae' = Zero
    /\ highest_mae_idx' = 0
    /\ train_time' = 0
    /\ search_log' = <<>>

\* BaseClassifier.fit entering OrdinalTDE._fit(X, y)
Fit ==
    /\ pc = "configured"
    /\ pc' = "fitting"
    /\ call' = "fit"
    /\ FitPrologue
    /\ result' = NoResult
    /\ UNCHANGED <<cfg, data, is_fitted, n_estimators_, _weight_sum>>
    /\ UNCHANGED <<bagVars, twin, glueVars>>

\* BaseClassifier.fit_predict_proba entering _fit_predict_proba, line 421
FitPredictProba ==
    /\ pc = "configured"
    /\ pc' = "fitting"
    /\ call' = "fit_predict_proba"
    /\ FitPrologue
    /\ result' = NoResult
    /\ UNCHANGED <<cfg, data, is_fitted, n_estimators_, _weight_sum>>
    /\ UNCHANGED <<bagVars, twin, glueVars>>

keep_train_preds == call = "fit_predict_proba"

(***************************************************************************)
(* OrdinalTDE._fit, lines 291-361: the search loop.  The locals and        *)
(* attributes the loop reads and writes are gathered in a record, so that  *)
(* one iteration is a function of that record and of what the             *)
(* collaborators return.                                                   *)
(***************************************************************************)
LoopState ==
    [possible_parameters |-> possible_parameters,
     estimators_ |-> estimators_,
     weights_ |-> weights_,
     highest_mae |-> highest_mae,
     highest_mae_idx |-> highest_mae_idx,
     _prev_parameters_x |-> _prev_parameters_x,
     _prev_parameters_y |-> _prev_parameters_y,
     num_classifiers |-> num_classifiers,
     train_time |-> train_time,
     search_log |-> search_log]

\* a loop condition that leaves the last candidate in the pool
LoopConditionLeavesOne(st) ==
    /\ \/ /\ st.train_time < time_limit
          /\ LtInf(st.num_classifiers, contract_max_n_parameter_samples)
       \/ st.num_classifiers < n_parameter_samples
    /\ Len(st.possible_parameters) > 1

\* lines 291-297
LoopCondition(st) ==
    /\ \/ /\ st.train_time < time_limit
          /\ LtInf(st.num_classifiers, contract_max_n_parameter_samples)
       \/ st.num_classifiers < n_parameter_samples
    /\ Len(st.possible_parameters) > 0

\* a branch that draws at random once more
SelectionBranchOneMore(st) ==
    IF st.num_classifiers <= cfg.randomly_selected_params
    THEN "random" ELSE "surrogate"

\* lines 298-312: the index popped from possible_parameters.  rng.randint
\* can return any index; so can the surrogate's argmin (KernelRidge is fit
\* outside this file).
SelectionBranch(st) ==
    IF st.num_classifiers < cfg.randomly_selected_params
    THEN "random" ELSE "surrogate"

PopIndices(st) == 1..Len(st.possible_parameters)

\* a pool update that appends whenever the candidate beats the worst
\* member, without looking at the pool's size
UpdatePoolAppendsBetter(st, tde, weight) ==
    IF st.num_classifiers < cfg.max_ensemble_size
       \/ RatLt(tde._mae, st.highest_mae)
    THEN [estimators_ |-> Append(st.estimators_, tde),
          weights_ |-> Append(st.weights_, weight),
          highest_mae |-> IF RatLt(st.highest_mae, tde._mae)
                          THEN tde._mae ELSE st.highest_mae,
          highest_mae_idx |-> IF RatLt(st.highest_mae, tde._mae)
                              THEN st.num_classifiers
                              ELSE st.highest_mae_idx]
    ELSE [estimators_ |-> st.estimators_,
          weights_ |-> st.weights_,
          highest_mae |-> st.highest_mae,
          highest_mae_idx |-> st.highest_mae_idx]

\* a pool update whose replacement puts the new member in the pool and
\* leaves the evicted member's weight in weights_
UpdatePoolKeepsOldWeight(st, tde, weight) ==
    IF st.num_classifiers < cfg.max_ensemble_size
    THEN [estimators_ |-> Append(st.estimators_, tde),
          weights_ |-> Append(st.weights_, weight),
          highest_mae |-> IF RatLt(st.highest_mae, tde._mae)
                          THEN tde._mae ELSE st.highest_mae,
          highest_mae_idx |-> IF RatLt(st.highest_mae, tde._mae)
                              THEN st.num_classifiers
                              ELSE st.highest_mae_idx]
    ELSE IF RatLt(tde._mae, st.highest_mae)
         THEN LET ests == [st.estimators_ EXCEPT
                               ![st.highest_mae_idx + 1] = tde]
                  worst == _worst_ensemble_mae(ests)
              IN  [estimators_ |-> ests,
                   weights_ |-> st.weights_,
                   highest_mae |-> worst[1],
                   highest_mae_idx |-> worst[2]]
         ELSE [estimators_ |-> st.estimators_,
               weights_ |-> st.weights_,
               highest_mae |-> st.highest_mae,
               highest_mae_idx |-> st.highest_mae_idx]

\* a pool update whose replacement takes the first slot of the pool
UpdatePoolReplacesFirst(st, tde, weight) ==
    IF st.num_classifiers < cfg.max_ensemble_size
    THEN [estimators_ |-> Append(st.estimators_, tde),
          weights_ |-> Append(st.weights_, weight),
          highest_mae |-> IF RatLt(st.highest_mae, tde._mae)
                          THEN tde._mae ELSE st.highest_mae,
          highest_mae_idx |-> IF RatLt(st.highest_mae, tde._mae)
                              THEN st.num_classifiers
                              ELSE st.highest_mae_idx]
    ELSE IF RatLt(tde._mae, st.highest_mae)
         THEN LET ests == [st.estimators_ EXCEPT ![1] = tde]
                  worst == _worst_ensemble_mae(ests)
              IN  [estimators_ |-> ests,
                   weights_ |-> [st.weights_ EXCEPT ![1] = weight],
                   highest_mae |-> worst[1],
                   highest_mae_idx |-> worst[2]]
         ELSE [estimators_ |-> st.estimators_,
               weights_ |-> st.weights_,
               highest_mae |-> st.highest_mae,
               highest_mae_idx |-> st.highest_mae_idx]

\* lines 345-355: the pool after member tde was evaluated
UpdatePool(st, tde, weight) ==
    IF st.num_classifiers < cfg.max_ensemble_size
    THEN [estimators_ |-> Append(st.estimators_, tde),
          weights_ |-> Append(st.weights_, weight),
          highest_mae |-> IF RatLt(st.highest_mae, tde._mae)
                          THEN tde._mae ELSE st.highest_mae,
          highest_mae_idx |-> IF RatLt(st.highest_mae, tde._mae)
                              THEN st.num_classifiers
                              ELSE st.highest_mae_idx]
    ELSE IF RatLt(tde._mae, st.highest_mae)
         THEN LET ests == [st.estimators_ EXCEPT
                               ![st.highest_mae_idx + 1] = tde]
                  worst == _worst_ensemble_mae(ests)
              IN  [estimators_ |-> ests,
                   weights_ |-> [st.weights_ EXCEPT
                                    ![st.highest_mae_idx + 1] = weight],
                   highest_mae |-> worst[1],
                   highest_mae_idx |-> worst[2]]
         ELSE [estimators_ |-> st.estimators_,
               weights_ |-> st.weights_,
               highest_mae |-> st.highest_mae,
               highest_mae_idx |-> st.highest_mae_idx]

\* lines 314-337: the member fitted on the subsample, c being what its
\* _train_predict returns for the cases of the subsample
EvaluateMember(st, keep, parameters, subsample, c) ==
    LET y_subsample == [n \in DOMAIN subsample |-> data.y[subsample[n]]]
    IN  [parameters |-> parameters,
         _subsample |-> subsample,
         _class_vals |-> y_subsample,
         _train_predictions |-> IF keep THEN c ELSE <<>>,
         _mae |-> _individual_train_mae(
                      y_subsample, c, subsample_size,
                      IF st.num_classifiers < cfg.max_ensemble_size
                      THEN Rat(REJECT_MAE, 1) ELSE st.highest_mae)]

\* one pass through the loop body, lines 298-361
Iterate(st, keep, idx, subsample, c, now) ==
    LET parameters == st.possible_parameters[idx]
        tde == EvaluateMember(st, keep, parameters, subsample, c)
        pool == UpdatePool(st, tde, MemberWeight(tde._mae))
    IN  [possible_parameters |-> Pop(st.possible_parameters, idx),
         estimators_ |-> pool.estimators_,
         weights_ |-> pool.weights_,
         highest_mae |-> pool.highest_mae,
         highest_mae_idx |-> pool.highest_mae_idx,
         _prev_parameters_x |-> Append(st._prev_parameters_x, parameters),
         _prev_parameters_y |-> Append(st._prev_parameters_y, tde._mae),
         num_classifiers |-> st.num_classifiers + 1,
         train_time |-> now,
         search_log |-> Append(st.search_log,
                               [branch |-> SelectionBranch(st),
                                mae |-> Rat(AbsoluteError(tde._class_vals, c),
                                            subsample_size),
                                highest_mae |-> st.highest_mae,
                                pool |-> Len(st.estimators_)])]

SubsampleLabels(subsample) ==
    [n \in DOMAIN subsample |-> data.y[subsample[n]]]

FitIteration ==
    /\ pc = "fitting"
    /\ LoopCondition(LoopState)
    /\ \E idx \in PopIndices(LoopState),
          subsample \in Subsamples(data.n_cases, subsample_size),
          now \in ClockReadings(time_limit) :
        \E c \in TrainPredictions(SubsampleLabels(subsample)) :
            LET new == Iterate(LoopState, keep_train_preds, idx, subsample,
                               c, now)
            IN  /\ now >= train_time
                /\ possible_parameters' = new.possible_parameters
                /\ estimators_' = new.estimators_
                /\ weights_' = new.weights_
                /\ highest_mae' = new.highest_mae
                /\ highest_mae_idx' = new.highest_mae_idx
                /\ _prev_parameters_x' = new._prev_parameters_x
                /\ _prev_parameters_y' = new._prev_parameters_y
                /\ num_classifiers' = new.num_classifiers
                /\ train_time' = new.train_time
                /\ search_log' = new.search_log
    /\ UNCHANGED <<cfg, data, pc, call, is_fitted, n_estimators_, _weight_sum,
                   _min_window, result>>
    /\ UNCHANGED <<bagVars, twin, glueVars>>

(***************************************************************************)
(* OrdinalTDE._fit, lines 363-366, and the return into the caller:         *)
(* BaseClassifier.fit sets is_fitted; _fit_predict_proba goes on at 423.   *)
(***************************************************************************)
\* an epilogue that counts the candidates evaluated instead of the members
\* retained
FitReturnCountsEvaluated ==
    /\ pc = "fitting"
    /\ ~LoopCondition(LoopState)
    /\ n_estimators_' = num_classifiers
    /\ _weight_sum' = RatSum(weights_)
    /\ IF call = "fit"
       THEN pc' = "fitted" /\ is_fitted' = TRUE
       ELSE pc' = "estimating" /\ is_fitted' = is_fitted
    /\ UNCHANGED <<cfg, data, call, estimators_, weights_, _min_window,
                   _prev_parameters_x, _prev_parameters_y,
                   possible_parameters, num_classifiers, highest_mae,
                   highest_mae_idx, train_time, result>>
    /\ UNCHANGED <<search_log, bagVars, twin, glueVars>>

FitReturn ==
    /\ pc = "fitting"
    /\ ~LoopCondition(LoopState)
    /\ n_estimators_' = Len(estimators_)
    /\ _weight_sum' = RatSum(weights_)
    /\ IF call = "fit"
       THEN pc' = "fitted" /\ is_fitted' = TRUE
       ELSE pc' = "estimating" /\ is_fitted' = is_fitted
    /\ UNCHANGED <<cfg, data, call, estimators_, weights_, _min_window,
                   _prev_parameters_x, _prev_parameters_y,
                   possible_parameters, num_classifiers, highest_mae,
                   highest_mae_idx, train_time, result>>
    /\ UNCHANGED <<search_log, bagVars, twin, glueVars>>

(***************************************************************************)
(* Weighted voting, shared by _predict_proba (lines 402-409) and           *)
(* _fit_predict_proba (lines 423-459).  covers[m][i] says whether member m *)
(* votes on case i and votes[m][i] is the label it predicts there.         *)
(***************************************************************************)
Members == 1..Len(estimators_)

\* the weight accumulated for case i in class column k
VoteSum(covers, votes, i, k) ==
    RatSum([m \in Members |->
               IF covers[m][i] /\ _class_dictionary(votes[m][i]) = k
               THEN weights_[m] ELSE Zero])

\* divisors[i]: the weight of the members voting on case i
Divisor(covers, i) ==
    RatSum([m \in Members |-> IF covers[m][i] THEN weights_[m] ELSE Zero])

\* clf.predict(X) of every member on the cases it is asked about: _test_nn
\* returns the label of one of the member's training cases
MemberPredictions(cases, asked) ==
    {v \in [Members -> [cases -> Labels]] :
        \A m \in Members : \A i \in cases :
            v[m][i] \in IF asked[m][i] THEN Range(estimators_[m]._class_vals)
                        ELSE {estimators_[m]._class_vals[1]}}

\* _predict_proba, lines 402-409
PredictProbaRows(cases, votes) ==
    LET all == [m \in Members |-> [i \in cases |-> TRUE]]
    IN  [i \in cases |->
            [k \in 1..n_classes_ |->
                RatDiv(VoteSum(all, votes, i, k), _weight_sum)]]

\* the label at position k of classes_ (1-based)
ClassAt(k) == CHOOSE label \in classes_ : _class_dictionary(label) = k

\* np.flatnonzero(prob == prob.max()): empty for a row of NaN
ArgMax(prob) ==
    {k \in DOMAIN prob :
        /\ ~IsNaN(prob[k])
        /\ \A j \in DOMAIN prob : ~RatLt(prob[k], prob[j])}

Returned(kind, rows, divisors) ==
    [kind |-> kind, rows |-> rows, divisors |-> divisors, error |-> ""]

\* a wrapper that lets every call through
CheckIsFittedSkipped == TRUE

\* BaseClassifier.predict / predict_proba refuse an estimator that is not
\* fitted
CheckIsFitted == is_fitted

\* no public method is running, and the estimator has not answered a query
\* since its last call of fit (one answered query per behaviour)
Idle ==
    /\ pc \in {"configured", "fitted", "failed"}
    /\ result.kind \in {"none", "error"}

(***************************************************************************)
(* BaseClassifier.predict_proba -> OrdinalTDE._predict_proba               *)
(***************************************************************************)
PredictProba ==
    /\ Idle
    /\ IF ~CheckIsFitted
       THEN result' = Raised("NotFittedError")
       ELSE \E n \in TestCaseCounts :
            \E votes \in MemberPredictions(1..n,
                           [m \in Members |-> [i \in 1..n |-> TRUE]]) :
                result' = Returned("proba", PredictProbaRows(1..n, votes), <<>>)
    /\ UNCHANGED <<cfg, data, pc, call, is_fitted, estimators_, weights_,
                   n_estimators_, _weight_sum, _min_window,
                   _prev_parameters_x, _prev_parameters_y,
                   possible_parameters, num_classifiers, highest_mae,
                   highest_mae_idx, train_time>>
    /\ UNCHANGED <<search_log, bagVars, twin, glueVars>>

(***************************************************************************)
(* BaseClassifier.predict -> OrdinalTDE._predict, lines 381-387: the       *)
(* label of a class of largest probability, rng.choice among ties, which   *)
(* raises ValueError when no class qualifies.                              *)
(***************************************************************************)
Predict ==
    /\ Idle
    /\ IF ~CheckIsFitted
       THEN result' = Raised("NotFittedError")
       ELSE \E n \in TestCaseCounts :
            \E votes \in MemberPredictions(1..n,
                           [m \in Members |-> [i \in 1..n |-> TRUE]]) :
                LET rows == PredictProbaRows(1..n, votes)
                IN  IF \E i \in 1..n : ArgMax(rows[i]) = {}
                    THEN result' = Raised("ValueError")
                    ELSE \E pick \in [1..n -> 1..n_classes_] :
                            /\ \A i \in 1..n : pick[i] \in ArgMax(rows[i])
                            /\ result' = Returned("labels",
                                   [i \in 1..n |-> ClassAt(pick[i])], <<>>)
    /\ UNCHANGED <<cfg, data, pc, call, is_fitted, estimators_, weights_,
                   n_estimators_, _weight_sum, _min_window,
                   _prev_parameters_x, _prev_parameters_y,
                   possible_parameters, num_classifiers, highest_mae,
                   highest_mae_idx, train_time>>
    /\ UNCHANGED <<search_log, bagVars, twin, glueVars>>

(***************************************************************************)
(* OrdinalTDE._fit_predict_proba, lines 423-461, after its call of _fit.   *)
(***************************************************************************)
\* str.lower() on the method names the inputs use
Lower(str) == CASE str = "LOOCV" -> "loocv"
                [] str = "OOB" -> "oob"
                [] OTHER -> str

Cases == 1..data.n_cases

InSubsample(m, i) == i \in Range(estimators_[m]._subsample)

\* member m voting on case i with the prediction kept at position i
LoocvVotesByCaseNumber ==
    [m \in Members |->
        [i \in Cases |->
            IF InSubsample(m, i)
            THEN estimators_[m]._train_predictions[
                     IF i \in DOMAIN estimators_[m]._train_predictions
                     THEN i ELSE 1]
            ELSE estimators_[m]._class_vals[1]]]

\* lines 427-435: member m votes on the cases of its subsample with its
\* kept leave-one-out predictions
LoocvCovers == [m \in Members |-> [i \in Cases |-> InSubsample(m, i)]]

LoocvVotes ==
    [m \in Members |->
        [i \in Cases |->
            IF InSubsample(m, i)
            THEN estimators_[m]._train_predictions[
                     CHOOSE n \in DOMAIN estimators_[m]._subsample :
                         estimators_[m]._subsample[n] = i]
            ELSE estimators_[m]._class_vals[1]]]

\* lines 437-448: member m votes on the cases outside its subsample
OobCovers == [m \in Members |-> [i \in Cases |-> ~InSubsample(m, i)]]

\* lines 454-459
EstimateRows(covers, votes) ==
    [i \in Cases |->
        IF Divisor(covers, i) = Zero
        THEN [k \in 1..n_classes_ |-> Rat(1, n_classes_)]
        ELSE [k \in 1..n_classes_ |->
                 RatDiv(VoteSum(covers, votes, i, k), Divisor(covers, i))]]

EstimateResult(covers, votes) ==
    Returned("proba", EstimateRows(covers, votes),
             [i \in Cases |-> Divisor(covers, i)])

TrainEstimate ==
    /\ pc = "estimating"
    /\ CASE Lower(cfg.train_estimate_method) = "loocv" ->
              /\ result' = EstimateResult(LoocvCovers, LoocvVotes)
              /\ pc' = "fitted"
              /\ is_fitted' = TRUE
         [] Lower(cfg.train_estimate_method) = "oob" ->
              /\ \E votes \in MemberPredictions(Cases, OobCovers) :
                     result' = EstimateResult(OobCovers, votes)
              /\ pc' = "fitted"
              /\ is_fitted' = TRUE
         [] OTHER ->
              /\ result' = Raised("ValueError")
              /\ pc' = "failed"
              /\ is_fitted' = is_fitted
    /\ UNCHANGED <<cfg, data, call, estimators_, weights_, n_estimators_,
                   _weight_sum, _min_window, _prev_parameters_x,
                   _prev_parameters_y, possible_parameters, num_classifiers,
                   highest_mae, highest_mae_idx, train_time>>
    /\ UNCHANGED <<search_log, bagVars, twin, glueVars>>

(***************************************************************************)
(* Histogram Similarity: histogram_intersection(first, second) of          *)
(* aeon.classification.dictionary_based._tde, imported at line 29 and      *)
(* called by _test_nn (line 886) and _train_predict (line 968).  A word    *)
(* bag is a dict from words to positive counts.                            *)
(***************************************************************************)
Words == 1..MaxWord

WordBags == UNION {[K -> 1..MaxCount] : K \in SUBSET Words}

\* min(val_a, val_b)
MinCount(a, b) == IF a <= b THEN a ELSE b

\* dict.get(word, 0)
Get(d, word) == IF word \in DOMAIN d THEN d[word] ELSE 0

\* a similarity that adds the first bag's count of every shared word
RECURSIVE SumFirstCounts(_, _, _)
SumFirstCounts(first, second, todo) ==
    IF todo = {} THEN 0
    ELSE LET word == CHOOSE w \in todo : TRUE
         IN  (IF word \in DOMAIN second THEN first[word] ELSE 0)
             + SumFirstCounts(first, second, todo \ {word})

histogram_sum_first(first, second) ==
    SumFirstCounts(first, second, DOMAIN first)

\* for word, val_a in first.items(): sim += min(val_a, second.get(word, 0))
RECURSIVE SumMinCounts(_, _, _)
SumMinCounts(first, second, todo) ==
    IF todo = {} THEN 0
    ELSE LET word == CHOOSE w \in todo : TRUE
         IN  MinCount(first[word], Get(second, word))
             + SumMinCounts(first, second, todo \ {word})

histogram_intersection(first, second) ==
    SumMinCounts(first, second, DOMAIN first)

\* two bags, no similarity computed yet
InitBags ==
    /\ cfg = Config(250, 50, 50, 0, np_inf, 10, One, "loocv")
    /\ data = Dataset([i \in 1..3 |-> IF i = 1 THEN 0 ELSE 1])
    /\ Unfitted
    /\ test_bag \in WordBags
    /\ bag \in WordBags
    /\ sim = <<>>
    /\ twin = NoTwin
    /\ NoGlue

\* sim = histogram_intersection(test_bag, bag)
Intersect ==
    /\ Len(sim) = 0
    /\ sim' = <<histogram_intersection(test_bag, bag)>>
    /\ UNCHANGED <<tdeVars, test_bag, bag, twin, glueVars>>

\* the same call with the two bags exchanged
IntersectExchanged ==
    /\ Len(sim) = 1
    /\ sim' = Append(sim, histogram_intersection(bag, test_bag))
    /\ UNCHANGED <<tdeVars, test_bag, bag, twin, glueVars>>

NextBags == Intersect \/ IntersectExchanged

SpecBags == InitBags /\ [][NextBags]_vars

(***************************************************************************)
(* BaseCollectionEstimator._preprocess_collection (aeon.base), as used by  *)
(* test_preprocess_collection: the estimator is built, its                 *)
(* capability:multithreading tag and n_jobs attribute are set or not, and  *)
(* collections are handed to _preprocess_collection.                       *)
(***************************************************************************)
\* equal length univariate collections without missing values
Collections == [n_cases : 1..MaxShape, n_timepoints : 1..MaxShape]

\* the six entries of the metadata dict
_get_X_metadata(X) ==
    [multivariate |-> FALSE, missing_values |-> FALSE,
     unequal_length |-> FALSE, n_channels |-> 1,
     n_timepoints |-> X.n_timepoints, n_cases |-> X.n_cases]

\* check_n_jobs of a positive n_jobs
check_n_jobs(n_jobs) == n_jobs

\* hasattr(self, "n_jobs"): the attribute is kept as <<>> or <<value>>
HasNJobs(est) == Len(est.n_jobs) > 0

\* a preprocessing that records the metadata of every collection it sees
_preprocess_collection_records_each(est, X) ==
    LET seen == [est EXCEPT !.metadata_ = <<_get_X_metadata(X)>>,
                            !.X = X, !.calls = @ + 1]
    IN  IF est.multithreading
        THEN IF HasNJobs(est)
             THEN [seen EXCEPT !._n_jobs = check_n_jobs(est.n_jobs[1]),
                               !.outcome = "returned"]
             ELSE [seen EXCEPT !.outcome = "AttributeError"]
        ELSE [seen EXCEPT !.outcome = "returned"]

\* a preprocessing that falls back to one job when n_jobs is missing
_preprocess_collection_one_job(est, X) ==
    LET seen == [est EXCEPT !.metadata_ =
                                IF Len(est.metadata_) = 0
                                THEN <<_get_X_metadata(X)>> ELSE @,
                            !.X = X, !.calls = @ + 1]
    IN  IF est.multithreading
        THEN [seen EXCEPT !._n_jobs = IF HasNJobs(est)
                                      THEN check_n_jobs(est.n_jobs[1]) ELSE 1,
                          !.outcome = "returned"]
        ELSE [seen EXCEPT !.outcome = "returned"]

\* metadata_ is stored only while it is empty; with the multithreading
\* capability _n_jobs is taken from n_jobs, which must exist
_preprocess_collection(est, X) ==
    LET seen == [est EXCEPT !.metadata_ =
                                IF Len(est.metadata_) = 0
                                THEN <<_get_X_metadata(X)>> ELSE @,
                            !.X = X, !.calls = @ + 1]
    IN  IF est.multithreading
        THEN IF HasNJobs(est)
             THEN [seen EXCEPT !._n_jobs = check_n_jobs(est.n_jobs[1]),
                               !.outcome = "returned"]
             ELSE [seen EXCEPT !.outcome = "AttributeError"]
        ELSE [seen EXCEPT !.outcome = "returned"]

\* BaseCollectionEstimator(), then set_tags and n_jobs or neither
InitCollection ==
    /\ cfg = Config(250, 50, 50, 0, np_inf, 10, One, "loocv")
    /\ data = Dataset([i \in 1..3 |-> IF i = 1 THEN 0 ELSE 1])
    /\ Unfitted
    /\ test_bag = <<>>
    /\ bag = <<>>
    /\ sim = <<>>
    /\ twin = NoTwin
    /\ \E tag \in BOOLEAN, jobs \in {<<>>, <<1>>, <<2>>} :
           base = [multithreading |-> tag, n_jobs |-> jobs, metadata_ |-> <<>>,
                   _n_jobs |-> 1, X |-> <<>>, calls |-> 0, outcome |-> "none"]
    /\ adaptor = NoObject
    /\ member = NoObject

PreprocessCollection ==
    /\ base.calls < MaxCalls
    /\ \E X \in Collections : base' = _preprocess_collection(base, X)
    /\ UNCHANGED <<tdeVars, bagVars, twin, adaptor, member>>

NextCollection == PreprocessCollection

SpecCollection == InitCollection /\ [][NextCollection]_vars

(***************************************************************************)
(* One call of fit followed to its return.  The interpreter keeps running  *)
(* the loop of _fit, so a step of the loop that can be taken is taken.     *)
(***************************************************************************)
\* labels of three ordinal classes, and labels more than 100 apart
OrdinalLabels == <<0, 1, 2>>
WideLabels == <<0, 120, 300>>

FitDatasets == Datasets \cup {Dataset(OrdinalLabels), Dataset(WideLabels)}

\* a timed search with n_parameter_samples <= randomly_selected_params; an
\* untimed one with the same; an untimed one that goes on after its random
\* draw and fills the pool, all three over the windows NTimepoints - 1 and
\* NTimepoints; and searches whose budget of 5 exceeds the candidate space
\* (one window at min_window = NTimepoints, none above)
FitConfigs ==
    {Config(1, 1, 1, 1, 2, NTimepoints - 1, One, "loocv"),
     Config(2, 2, 2, 0, np_inf, NTimepoints - 1, One, "loocv"),
     Config(3, 2, 1, 0, np_inf, NTimepoints - 1, One, "loocv"),
     Config(5, 1, 3, 0, np_inf, NTimepoints, One, "loocv"),
     Config(5, 1, 3, 0, np_inf, NTimepoints + 1, One, "loocv")}

InitFit ==
    /\ cfg \in FitConfigs
    /\ data \in FitDatasets
    /\ Unfitted
    /\ test_bag = <<>>
    /\ bag = <<>>
    /\ sim = <<>>
    /\ twin = NoTwin
    /\ NoGlue

NextFit ==
    \/ Fit
    \/ FitIteration
    \/ FitReturn

\* the steps of the loop as the fairness conditions see them: a FitIteration
\* step is a step from a true loop condition that counts one more candidate,
\* a FitReturn step one from a false loop condition that leaves "fitting"
LoopIterates ==
    /\ pc = "fitting"
    /\ LoopCondition(LoopState)
    /\ num_classifiers' = num_classifiers + 1

LoopReturns ==
    /\ pc = "fitting"
    /\ ~LoopCondition(LoopState)
    /\ pc' \in {"fitted", "estimating"}

SpecFit ==
    /\ InitFit
    /\ [][NextFit]_vars
    /\ WF_num_classifiers(LoopIterates)
    /\ WF_pc(LoopReturns)

(***************************************************************************)
(* IndividualOrdinalTDE._train_predict, lines 956-974: the nearest         *)
(* neighbour of a training case among the other bags of the member.        *)
(***************************************************************************)
\* the bags a fitted member stores: over two words, with counts 1 and 2
StoredWords == {1, 2}
StoredCounts == {1, 2}
StoredBags == UNION {[K -> StoredCounts] : K \in SUBSET StoredWords}

\* _transformed_data of two or three cases
StoredData == UNION {[1..n -> StoredBags] : n \in {2, 3}}

\* the loop of lines 964-972 from bag n on (1-based), with a comparison
\* that also takes an equal similarity
RECURSIVE TrainPredictScanLastWins(_, _, _, _, _, _)
TrainPredictScanLastWins(bags, class_vals, train_num, n, best_sim, nn) ==
    IF n > Len(bags) THEN nn
    ELSE IF n = train_num
         THEN TrainPredictScanLastWins(bags, class_vals, train_num, n + 1,
                                       best_sim, nn)
         ELSE LET s == histogram_intersection(bags[train_num], bags[n])
              IN  IF s >= best_sim
                  THEN TrainPredictScanLastWins(bags, class_vals, train_num,
                                                n + 1, s, <<class_vals[n]>>)
                  ELSE TrainPredictScanLastWins(bags, class_vals, train_num,
                                                n + 1, best_sim, nn)

_train_predict_last_wins(tde, train_num) ==
    TrainPredictScanLastWins(tde._transformed_data, tde._class_vals,
                             train_num, 1, -1, <<>>)

\* the loop of lines 964-972 from bag n on (1-based); nn is <<>> for None
RECURSIVE TrainPredictScan(_, _, _, _, _, _)
TrainPredictScan(bags, class_vals, train_num, n, best_sim, nn) ==
    IF n > Len(bags) THEN nn
    ELSE IF n = train_num
         THEN TrainPredictScan(bags, class_vals, train_num, n + 1,
                               best_sim, nn)
         ELSE LET s == histogram_intersection(bags[train_num], bags[n])
              IN  IF s > best_sim
                  THEN TrainPredictScan(bags, class_vals, train_num, n + 1,
                                        s, <<class_vals[n]>>)
                  ELSE TrainPredictScan(bags, class_vals, train_num, n + 1,
                                        best_sim, nn)

\* lines 957-974, bags being self._transformed_data
_train_predict(tde, train_num) ==
    TrainPredictScan(tde._transformed_data, tde._class_vals, train_num, 1,
                     -1, <<>>)

\* a fitted member: every case has its own label, so that the label
\* returned names the bag it came from
InitMember ==
    /\ cfg = Config(250, 50, 50, 0, np_inf, 10, One, "loocv")
    /\ data = Dataset([i \in 1..3 |-> IF i = 1 THEN 0 ELSE 1])
    /\ Unfitted
    /\ test_bag = <<>>
    /\ bag = <<>>
    /\ sim = <<>>
    /\ twin = NoTwin
    /\ base = NoObject
    /\ adaptor = NoObject
    /\ \E bags \in StoredData :
           member = [_transformed_data |-> bags,
                     _class_vals |-> [n \in DOMAIN bags |-> n - 1],
                     train_num |-> 0,
                     nn |-> <<>>]

\* c = tde._train_predict(i)
TrainPredict ==
    /\ \E train_num \in DOMAIN member._transformed_data :
           member' = [member EXCEPT
                          !.train_num = train_num,
                          !.nn = _train_predict(member, train_num)]
    /\ UNCHANGED <<tdeVars, bagVars, twin, base, adaptor>>

NextMember == TrainPredict

SpecMember == InitMember /\ [][NextMember]_vars

(***************************************************************************)
(* OrdinalTDE._individual_train_mae, lines 486-514, seen from the member   *)
(* it evaluates: with n_jobs > 1 the calls tde._train_predict(i) are       *)
(* handed to joblib workers, which finish in any order; Parallel returns   *)
(* when all have finished, with the results in the order of the calls.     *)
(***************************************************************************)
\* the bags of the subsample: one word each
EvaluatedBags == {b \in StoredBags : Cardinality(DOMAIN b) = 1}
EvaluatedCases == {1, 2, 3}
EvaluatedLabels == {0, 1}

\* the thresholds of line 335: 100, and the highest MAE of a full pool
EvaluatedThresholds == {Rat(REJECT_MAE, 1), Rat(1, 3)}

NoValue == <<>>

InitParallel ==
    /\ cfg = Config(250, 50, 50, 0, np_inf, 10, One, "loocv")
    /\ data = Dataset([i \in 1..3 |-> IF i = 1 THEN 0 ELSE 1])
    /\ Unfitted
    /\ test_bag = <<>>
    /\ bag = <<>>
    /\ sim = <<>>
    /\ twin = NoTwin
    /\ base = NoObject
    /\ adaptor = NoObject
    /\ \E bags \in [EvaluatedCases -> EvaluatedBags],
          y \in [EvaluatedCases -> EvaluatedLabels],
          jobs \in {1, 2}, keep \in BOOLEAN,
          highest \in EvaluatedThresholds :
           member = [_transformed_data |-> bags,
                     _class_vals |-> y,
                     _n_jobs |-> jobs,
                     keep_train_preds |-> keep,
                     highest_mae |-> highest,
                     pending |-> {},
                     c |-> [i \in EvaluatedCases |-> NoValue],
                     finished |-> <<>>,
                     _train_predictions |-> <<>>,
                     _mae |-> NoValue,
                     at |-> "called"]

\* lines 499-509 over the predictions c, from case i on: the absolute error
\* and the predictions kept
RECURSIVE ErrorLoop(_, _, _, _, _, _)
ErrorLoop(y, c, keep, i, absolute_error, kept) ==
    IF i > Len(y) THEN <<absolute_error, kept>>
    ELSE ErrorLoop(y, c, keep, i + 1,
                   absolute_error + Abs(y[i] - c[i]),
                   IF keep THEN Append(kept, c[i]) ELSE kept)

\* lines 511-514
CappedMae(absolute_error, train_size, highest) ==
    LET mae == Rat(absolute_error, train_size)
    IN  IF RatLt(highest, mae) THEN Rat(REJECT_MAE, 1) ELSE mae

\* the results of the workers in the order they finished
FinishedResults == [k \in DOMAIN member.finished |->
                        member.c[member.finished[k]][1]]

\* the results in the order of the calls, lines 490-495
CollectedResults == [i \in DOMAIN member.c |-> member.c[i][1]]

\* lines 502-509: the sequential branch, the whole loop
SequentialEvaluate ==
    /\ member.at = "called"
    /\ member._n_jobs = 1
    /\ LET c == [i \in DOMAIN member._class_vals |->
                     _train_predict(member, i)[1]]
           out == ErrorLoop(member._class_vals, c, member.keep_train_preds,
                            1, 0, member._train_predictions)
       IN  member' = [member EXCEPT
               !._train_predictions = out[2],
               !._mae = CappedMae(out[1], Len(member._class_vals),
                                  member.highest_mae),
               !.at = "returned"]
    /\ UNCHANGED <<tdeVars, bagVars, twin, base, adaptor>>

\* line 490: Parallel(n_jobs=self._n_jobs)(delayed(tde._train_predict)(i) ...)
ParallelDispatch ==
    /\ member.at = "called"
    /\ member._n_jobs > 1
    /\ member' = [member EXCEPT !.pending = DOMAIN member._class_vals,
                                !.at = "parallel"]
    /\ UNCHANGED <<tdeVars, bagVars, twin, base, adaptor>>

\* one worker returns from tde._train_predict(i)
WorkerFinishes ==
    /\ member.at = "parallel"
    /\ \E i \in member.pending :
           member' = [member EXCEPT
               !.pending = @ \ {i},
               !.c[i] = _train_predict(member, i),
               !.finished = Append(@, i)]
    /\ UNCHANGED <<tdeVars, bagVars, twin, base, adaptor>>

\* Parallel has returned; lines 497-501 and 511-514
ParallelJoin ==
    /\ member.at = "parallel"
    /\ member.pending = {}
    /\ LET out == ErrorLoop(member._class_vals, CollectedResults,
                            member.keep_train_preds, 1, 0,
                            member._train_predictions)
       IN  member' = [member EXCEPT
               !._train_predictions = out[2],
               !._mae = CappedMae(out[1], Len(member._class_vals),
                                  member.highest_mae),
               !.at = "returned"]
    /\ UNCHANGED <<tdeVars, bagVars, twin, base, adaptor>>

NextParallel ==
    \/ SequentialEvaluate
    \/ ParallelDispatch
    \/ WorkerFinishes
    \/ ParallelJoin

SpecParallel == InitParallel /\ [][NextParallel]_vars

(***************************************************************************)
(* IndividualOrdinalTDE._select_dims, lines 894-954, called from _fit at   *)
(* line 765 when n_channels_ > 1.  The SFA transform of a channel and its  *)
(* leave-one-out error are inputs: maes[i] = total_absolute_err / n_cases  *)
(* for three cases whose labels are at most 1 apart.                       *)
(***************************************************************************)
ChannelCounts == {2, 3}
ChannelErrors == {0, 1, 2, 3}
ChannelCases == 3
DimThresholds == {Rat(85, 100), Rat(1, 2), One, Rat(3, 2)}
MaxDims == {0, 1, 2}

\* math.ceil(math.log2(n)) for n >= 1: the least k with 2^k >= n
RECURSIVE CeilLog2From(_, _)
CeilLog2From(n, k) == IF 2 ^ k >= n THEN k ELSE CeilLog2From(n, k + 1)

CeilLog2(n) == CeilLog2From(n, 0)

\* a bit width one short of what the channel index needs when n_channels is
\* not a power of two
_highest_dim_bit_short(n_channels) == CeilLog2(n_channels) - 1

\* line 895
_highest_dim_bit(n_channels) == CeilLog2(n_channels) + 1

InitSelect ==
    /\ cfg = Config(250, 50, 50, 0, np_inf, 10, One, "loocv")
    /\ data = Dataset([i \in 1..3 |-> IF i = 1 THEN 0 ELSE 1])
    /\ Unfitted
    /\ test_bag = <<>>
    /\ bag = <<>>
    /\ sim = <<>>
    /\ twin = NoTwin
    /\ base = NoObject
    /\ adaptor = NoObject
    /\ \E n \in ChannelCounts, thr \in DimThresholds, md \in MaxDims :
        \E err \in [1..n -> ChannelErrors] :
           member = [n_channels_ |-> n,
                     dim_threshold |-> thr,
                     max_dims |-> md,
                     maes |-> [i \in 1..n |-> Rat(err[i], ChannelCases)],
                     _dims |-> <<>>,
                     _transformers |-> <<>>,
                     _highest_dim_bit |-> 0,
                     at |-> "constructed"]

\* min(maes)
RECURSIVE MinMae(_)
MinMae(maes) ==
    IF Len(maes) = 1 THEN maes[1]
    ELSE LET rest == MinMae(Tail(maes))
         IN  IF RatLt(rest, maes[1]) THEN rest ELSE maes[1]

\* line 942
mae_min_threshold(dim_threshold) == RatAdd(One, RatSub(One, dim_threshold))

\* an acceptance test that wants the channel strictly under the threshold
AcceptsStrictly(tde, i) ==
    RatLt(tde.maes[i],
          RatMul(MinMae(tde.maes), mae_min_threshold(tde.dim_threshold)))

\* line 944, for channel i (1-based here)
Accepts(tde, i) ==
    RatLe(tde.maes[i],
          RatMul(MinMae(tde.maes), mae_min_threshold(tde.dim_threshold)))

\* lines 943-946 from channel i on: the accepted channels, with the code's
\* 0-based indices, and their transformers
RECURSIVE AcceptLoop(_, _, _, _)
AcceptLoop(tde, i, dims, fin_transformers) ==
    IF i > tde.n_channels_ THEN <<dims, fin_transformers>>
    ELSE IF Accepts(tde, i)
         THEN AcceptLoop(tde, i + 1, Append(dims, i - 1),
                         Append(fin_transformers, [fitted_on |-> i - 1]))
         ELSE AcceptLoop(tde, i + 1, dims, fin_transformers)

\* rng.choice(len(dims), self.max_dims, replace=False): the draws possible
ChoiceDraws(n, k) == Subsamples(n, k)

\* a subsampling that takes the drawn channels and the first max_dims
\* transformers
_select_dims_first_transformers(tde, idx) ==
    LET acc == AcceptLoop(tde, 1, <<>>, <<>>)
    IN  IF Len(acc[1]) > tde.max_dims
        THEN <<[k \in DOMAIN idx |-> acc[1][idx[k]]],
               SubSeq(acc[2], 1, tde.max_dims)>>
        ELSE acc

\* lines 938-954: what _select_dims returns, idx being the draw of line 950
_select_dims(tde, idx) ==
    LET acc == AcceptLoop(tde, 1, <<>>, <<>>)
    IN  IF Len(acc[1]) > tde.max_dims
        THEN <<[k \in DOMAIN idx |-> acc[1][idx[k]]],
               [k \in DOMAIN idx |-> acc[2][idx[k]]]>>
        ELSE acc

\* line 765: self._dims, self._transformers = self._select_dims(X, y)
SelectDims ==
    /\ member.at = "constructed"
    /\ LET accepted == Len(AcceptLoop(member, 1, <<>>, <<>>)[1])
       IN  \E idx \in IF accepted > member.max_dims
                      THEN ChoiceDraws(accepted, member.max_dims)
                      ELSE {<<>>} :
               LET out == _select_dims(member, idx)
               IN  member' = [member EXCEPT
                       !._highest_dim_bit =
                           _highest_dim_bit(member.n_channels_),
                       !._dims = out[1],
                       !._transformers = out[2],
                       !.at = "selected"]
    /\ UNCHANGED <<tdeVars, bagVars, twin, base, adaptor>>

NextSelect == SelectDims

SpecSelect == InitSelect /\ [][NextSelect]_vars

(***************************************************************************)
(* IndividualOrdinalTDE._fit, lines 778-796, and _predict, lines 847-865:  *)
(* the bags of the selected channels merged into one bag per case, the     *)
(* channel packed into the low bits of the word.  One training case and    *)
(* one test case; the plain-dict branch (lines 793-794 and 862-863).       *)
(***************************************************************************)
\* the words SFA gives a channel, and the words the packing is examined on
ChannelWords == {0, 1}
PackedWords == 0..7

\* word << bits
ShiftLeft(word, bits) == word * 2 ^ bits

\* a | b on non-negative integers
RECURSIVE BitOr(_, _)
BitOr(a, b) ==
    IF a = 0 THEN b
    ELSE IF b = 0 THEN a
    ELSE 2 * BitOr(a \div 2, b \div 2)
         + (IF a % 2 = 1 \/ b % 2 = 1 THEN 1 ELSE 0)

\* word << self._highest_dim_bit | dim
Pack(word, bits, dim) == BitOr(ShiftLeft(word, bits), dim)

\* the elements of a set of integers in ascending order
RECURSIVE Ascending(_)
Ascending(S) ==
    IF S = {} THEN <<>>
    ELSE LET least == CHOOSE x \in S : \A y \in S : x <= y
         IN  <<least>> \o Ascending(S \ {least})

\* the bag SFA gives channel dim: the count of a word tells the channel
ChannelBag(K, dim) == [word \in K |-> dim + 1]

\* words[n][key] = count
SetItem(d, key, count) ==
    [k \in DOMAIN d \cup {key} |-> IF k = key THEN count ELSE d[k]]

\* for word, count in dim_words[n].items(): words[n][packed] = count
RECURSIVE MergeWords(_, _, _, _, _)
MergeWords(words, dim_words, todo, bits, dim) ==
    IF todo = <<>> THEN words
    ELSE MergeWords(SetItem(words, Pack(todo[1], bits, dim), dim_words[todo[1]]),
                    dim_words, Tail(todo), bits, dim)

\* for i, dim in enumerate(self._dims): ..., from position i on
RECURSIVE MergeDims(_, _, _, _, _)
MergeDims(words, dims, channel_words, bits, i) ==
    IF i > Len(dims) THEN words
    ELSE MergeDims(MergeWords(words, channel_words[i],
                              Ascending(DOMAIN channel_words[i]), bits,
                              dims[i]),
                   dims, channel_words, bits, i + 1)

EmptyBag == [word \in {} |-> 0]

InitPack ==
    /\ cfg = Config(250, 50, 50, 0, np_inf, 10, One, "loocv")
    /\ data = Dataset([i \in 1..3 |-> IF i = 1 THEN 0 ELSE 1])
    /\ Unfitted
    /\ test_bag = <<>>
    /\ bag = <<>>
    /\ sim = <<>>
    /\ twin = NoTwin
    /\ base = NoObject
    /\ adaptor = NoObject
    /\ \E n \in ChannelCounts :
        \E selected \in SUBSET (0..(n - 1)) \ {{}} :
         \E train, test \in [1..Cardinality(selected) -> SUBSET ChannelWords] :
           member = [n_channels_ |-> n,
                     selected |-> Ascending(selected),
                     X_train |-> train,
                     X_test |-> test,
                     _dims |-> <<>>,
                     _highest_dim_bit |-> 0,
                     _transformed_data |-> EmptyBag,
                     test_bags |-> EmptyBag,
                     at |-> "constructed"]

\* _fit, lines 764-796, the selection having returned member.selected
PackFit ==
    /\ member.at = "constructed"
    /\ LET bits == _highest_dim_bit(member.n_channels_)
           dims == member.selected
           channel_words == [i \in DOMAIN dims |->
                                 ChannelBag(member.X_train[i], dims[i])]
       IN  member' = [member EXCEPT
               !._highest_dim_bit = bits,
               !._dims = dims,
               !._transformed_data =
                   MergeDims(EmptyBag, dims, channel_words, bits, 1),
               !.at = "fitted"]
    /\ UNCHANGED <<tdeVars, bagVars, twin, base, adaptor>>

\* _predict, lines 835-865
PackPredict ==
    /\ member.at = "fitted"
    /\ LET channel_words == [i \in DOMAIN member._dims |->
                                 ChannelBag(member.X_test[i],
                                            member._dims[i])]
       IN  member' = [member EXCEPT
               !.test_bags =
                   MergeDims(EmptyBag, member._dims, channel_words,
                             member._highest_dim_bit, 1),
               !.at = "predicted"]
    /\ UNCHANGED <<tdeVars, bagVars, twin, base, adaptor>>

NextPack == PackFit \/ PackPredict

SpecPack == InitPack /\ [][NextPack]_vars

(***************************************************************************)
(* TabularToSeriesAdaptor (aeon/transformations/_legacy/adapt.py).  A      *)
(* scikit-learn transformer object is its parameters and what it was last  *)
(* fitted on: <<>> when unfitted, <<X>> after fit(X).  transform and       *)
(* inverse_transform of such an object read it and leave it as it is.      *)
(***************************************************************************)
\* the tables handed to the adaptor
Tables == 1..MaxShape

\* estimator.fit(X)
SkFit(estimator, X) == [estimator EXCEPT !.fitted_on = <<X>>]

\* sklearn.base.clone: the same parameters, unfitted
clone(estimator) == [estimator EXCEPT !.fitted_on = <<>>]

\* transformers as handed to the constructor: with or without the stateless
\* tag, unfitted or already fitted by their owner
Transformers ==
    [params : {"with_mean"}, stateless : BOOLEAN,
     fitted_on : {<<>>} \cup {<<X>> : X \in Tables}]

\* __init__, lines 91-110
InitAdaptor ==
    /\ cfg = Config(250, 50, 50, 0, np_inf, 10, One, "loocv")
    /\ data = Dataset([i \in 1..3 |-> IF i = 1 THEN 0 ELSE 1])
    /\ Unfitted
    /\ test_bag = <<>>
    /\ bag = <<>>
    /\ sim = <<>>
    /\ twin = NoTwin
    /\ base = NoObject
    /\ \E transformer \in Transformers, fit_in_transform \in BOOLEAN :
           adaptor = [transformer |-> transformer,
                      transformer_ |-> clone(transformer),
                      fit_in_transform |-> fit_in_transform,
                      _skip_fit |-> fit_in_transform \/ transformer.stateless,
                      calls |-> 0,
                      applied |-> "none",
                      outcome |-> "none"]
    /\ member = NoObject

\* a _fit that fits the object the constructor was given
AdaptorFitsBlueprint ==
    /\ adaptor.calls < MaxCalls
    /\ \E X \in Tables :
           adaptor' = [adaptor EXCEPT
               !.transformer = IF adaptor._skip_fit THEN @ ELSE SkFit(@, X),
               !.applied = IF adaptor._skip_fit THEN "none" ELSE "transformer",
               !.outcome = "self",
               !.calls = @ + 1]
    /\ UNCHANGED <<tdeVars, bagVars, twin, base, member>>

\* _fit, lines 128-130
AdaptorFit ==
    /\ adaptor.calls < MaxCalls
    /\ \E X \in Tables :
           adaptor' = [adaptor EXCEPT
               !.transformer_ = IF adaptor._skip_fit THEN @ ELSE SkFit(@, X),
               !.applied = IF adaptor._skip_fit THEN "none" ELSE "transformer_",
               !.outcome = "self",
               !.calls = @ + 1]
    /\ UNCHANGED <<tdeVars, bagVars, twin, base, member>>

\* _transform, lines 149-162: an unfitted transformer_ refuses to transform
AdaptorTransform ==
    /\ adaptor.calls < MaxCalls
    /\ \E X \in Tables :
           adaptor' =
               IF adaptor._skip_fit
               THEN [adaptor EXCEPT !.transformer_ = SkFit(@, X),
                                    !.applied = "transformer_",
                                    !.outcome = "Xt",
                                    !.calls = @ + 1]
               ELSE [adaptor EXCEPT !.applied = "transformer_",
                                    !.outcome =
                                        IF adaptor.transformer_.fitted_on = <<>>
                                        THEN "NotFittedError" ELSE "Xt",
                                    !.calls = @ + 1]
    /\ UNCHANGED <<tdeVars, bagVars, twin, base, member>>

\* _inverse_transform, lines 181-185
AdaptorInverseTransform ==
    /\ adaptor.calls < MaxCalls
    /\ \E X \in Tables :
           adaptor' =
               IF adaptor.fit_in_transform
               THEN [adaptor EXCEPT !.transformer_ = SkFit(@, X),
                                    !.applied = "transformer_",
                                    !.outcome = "Xt",
                                    !.calls = @ + 1]
               ELSE [adaptor EXCEPT !.applied = "transformer_",
                                    !.outcome =
                                        IF adaptor.transformer_.fitted_on = <<>>
                                        THEN "NotFittedError" ELSE "Xt",
                                    !.calls = @ + 1]
    /\ UNCHANGED <<tdeVars, bagVars, twin, base, member>>

NextAdaptor ==
    \/ AdaptorFit
    \/ AdaptorTransform
    \/ AdaptorInverseTransform

SpecAdaptor == InitAdaptor /\ [][NextAdaptor]_vars

Next ==
    \/ Fit
    \/ FitPredictProba
    \/ FitIteration
    \/ FitReturn
    \/ TrainEstimate
    \/ PredictProba
    \/ Predict

Spec == Init /\ [][Next]_vars

(***************************************************************************)
(* fit_predict_proba with the leave-one-out estimate on five cases of two  *)
(* classes: subsamples of int(5 * 0.7) = 3 cases, a search of the two      *)
(* candidates of one window size, both retained.                           *)
(***************************************************************************)
InitLoocv ==
    /\ cfg = Config(2, 2, 3, 0, np_inf, NTimepoints, One, "loocv")
    /\ data = Dataset(<<0, 0, 1, 1, 1>>)
    /\ Unfitted
    /\ test_bag = <<>>
    /\ bag = <<>>
    /\ sim = <<>>
    /\ twin = NoTwin
    /\ NoGlue

NextLoocv ==
    \/ FitPredictProba
    \/ FitIteration
    \/ FitReturn
    \/ TrainEstimate

SpecLoocv == InitLoocv /\ [][NextLoocv]_vars

(***************************************************************************)
(* Two estimators built with the same parameters and the same integer      *)
(* random_state, fitted on the same data.  Each fit seeds its own          *)
(* generator (line 280, check_random_state of an int), so the two          *)
(* generators return the same value wherever the two runs make the same    *)
(* call in the same state; the members are built with that random_state    *)
(* too (line 326).  Each run reads its own clock (line 361).  The second   *)
(* run is kept in the record twin.                                         *)
(***************************************************************************)
\* the loop state after lines 242-278
PrologueState ==
    [possible_parameters |->
         _unique_parameters(cfg.min_window, max_window, win_inc),
     estimators_ |-> <<>>,
     weights_ |-> <<>>,
     highest_mae |-> Zero,
     highest_mae_idx |-> 0,
     _prev_parameters_x |-> <<>>,
     _prev_parameters_y |-> <<>>,
     num_classifiers |-> 0,
     train_time |-> 0,
     search_log |-> <<>>]

\* a search of two candidates out of four, the second chosen by the
\* surrogate: sized by n_parameter_samples, and sized by a time limit of one
\* minute with at most two candidates
TwinConfigs ==
    {Config(2, mes, 1, 0, np_inf, NTimepoints - 1, One, "loocv") :
        mes \in 1..MaxEnsembleSize}
    \cup
    {Config(250, mes, 1, 1, 2, NTimepoints - 1, One, "loocv") :
        mes \in 1..MaxEnsembleSize}

InitTwin ==
    /\ cfg \in TwinConfigs
    /\ data \in Datasets
    /\ Unfitted
    /\ test_bag = <<>>
    /\ bag = <<>>
    /\ sim = <<>>
    /\ twin = [pc |-> "configured", st |-> PrologueState, n_estimators_ |-> 0,
               _weight_sum |-> Zero, result |-> NoResult]
    /\ NoGlue

\* fit is called on both estimators
TwinFit ==
    /\ pc = "configured"
    /\ twin.pc = "configured"
    /\ pc' = "fitting"
    /\ call' = "fit"
    /\ FitPrologue
    /\ result' = NoResult
    /\ twin' = [twin EXCEPT !.pc = "fitting", !.st = PrologueState]
    /\ UNCHANGED <<cfg, data, is_fitted, n_estimators_, _weight_sum, bagVars,
                   glueVars>>

\* what the generators' draws depend on: the runs have made the same calls
SameCalls(a, b) ==
    /\ a.possible_parameters = b.possible_parameters
    /\ a._prev_parameters_x = b._prev_parameters_x
    /\ a._prev_parameters_y = b._prev_parameters_y
    /\ a.num_classifiers = b.num_classifiers

\* both runs pass through the loop body: equal draws and equal members where
\* the runs made the same calls so far, each run with its own clock reading
TwinIteration ==
    /\ pc = "fitting" /\ LoopCondition(LoopState)
    /\ twin.pc = "fitting" /\ LoopCondition(twin.st)
    /\ \E idx \in PopIndices(LoopState), idx2 \in PopIndices(twin.st),
          subsample, subsample2 \in Subsamples(data.n_cases, subsample_size),
          now, now2 \in ClockReadings(time_limit) :
        \E c \in TrainPredictions(SubsampleLabels(subsample)),
           c2 \in TrainPredictions(SubsampleLabels(subsample2)) :
            LET new == Iterate(LoopState, FALSE, idx, subsample, c, now)
                new2 == Iterate(twin.st, FALSE, idx2, subsample2, c2, now2)
            IN  /\ SameCalls(LoopState, twin.st) =>
                       (idx2 = idx /\ subsample2 = subsample /\ c2 = c)
                /\ now >= train_time
                /\ now2 >= twin.st.train_time
                /\ possible_parameters' = new.possible_parameters
                /\ estimators_' = new.estimators_
                /\ weights_' = new.weights_
                /\ highest_mae' = new.highest_mae
                /\ highest_mae_idx' = new.highest_mae_idx
                /\ _prev_parameters_x' = new._prev_parameters_x
                /\ _prev_parameters_y' = new._prev_parameters_y
                /\ num_classifiers' = new.num_classifiers
                /\ train_time' = new.train_time
                /\ search_log' = new.search_log
                /\ twin' = [twin EXCEPT !.st = new2]
    /\ UNCHANGED <<cfg, data, pc, call, is_fitted, n_estimators_, _weight_sum,
                   _min_window, result, bagVars, glueVars>>

\* the first run goes on after the second run's loop has ended
FirstIteration ==
    /\ ~(twin.pc = "fitting" /\ LoopCondition(twin.st))
    /\ FitIteration

\* the second run goes on after the first run's loop has ended
SecondIteration ==
    /\ ~(pc = "fitting" /\ LoopCondition(LoopState))
    /\ twin.pc = "fitting"
    /\ LoopCondition(twin.st)
    /\ \E idx \in PopIndices(twin.st),
          subsample \in Subsamples(data.n_cases, subsample_size),
          now \in ClockReadings(time_limit) :
        \E c \in TrainPredictions(SubsampleLabels(subsample)) :
            /\ now >= twin.st.train_time
            /\ twin' = [twin EXCEPT
                           !.st = Iterate(twin.st, FALSE, idx, subsample, c,
                                          now)]
    /\ UNCHANGED <<tdeVars, bagVars, glueVars>>

\* lines 363-366 in the second run
SecondReturn ==
    /\ twin.pc = "fitting"
    /\ ~LoopCondition(twin.st)
    /\ twin' = [twin EXCEPT !.pc = "fitted",
                            !.n_estimators_ = Len(twin.st.estimators_),
                            !._weight_sum = RatSum(twin.st.weights_)]
    /\ UNCHANGED <<tdeVars, bagVars, glueVars>>

\* _predict_proba of the second estimator, lines 402-409
SecondProbaRows(cases, votes) ==
    [i \in cases |->
        [k \in 1..n_classes_ |->
            RatDiv(RatSum([m \in DOMAIN twin.st.estimators_ |->
                              IF _class_dictionary(votes[m][i]) = k
                              THEN twin.st.weights_[m] ELSE Zero]),
                   twin._weight_sum)]]

\* predict_proba of both estimators on the same case: equal members predict
\* the same labels
TwinPredictProba ==
    /\ pc = "fitted" /\ result.kind = "none"
    /\ twin.pc = "fitted" /\ twin.result.kind = "none"
    /\ \E n \in TestCaseCounts :
       \E votes \in MemberPredictions(1..n,
                      [m \in Members |-> [i \in 1..n |-> TRUE]]),
          votes2 \in [DOMAIN twin.st.estimators_ -> [1..n -> Labels]] :
            /\ \A m \in DOMAIN twin.st.estimators_ : \A i \in 1..n :
                   votes2[m][i] \in Range(twin.st.estimators_[m]._class_vals)
            /\ \A m \in Members \cap DOMAIN twin.st.estimators_ :
                   twin.st.estimators_[m] = estimators_[m]
                       => votes2[m] = votes[m]
            /\ result' = Returned("proba", PredictProbaRows(1..n, votes), <<>>)
            /\ twin' = [twin EXCEPT !.result =
                           Returned("proba", SecondProbaRows(1..n, votes2),
                                    <<>>)]
    /\ UNCHANGED <<cfg, data, pc, call, is_fitted, estimators_, weights_,
                   n_estimators_, _weight_sum, _min_window,
                   _prev_parameters_x, _prev_parameters_y,
                   possible_parameters, num_classifiers, highest_mae,
                   highest_mae_idx, train_time, search_log, bagVars,
                   glueVars>>

NextTwin ==
    \/ TwinFit
    \/ TwinIteration
    \/ FirstIteration
    \/ SecondIteration
    \/ FitReturn
    \/ SecondReturn
    \/ TwinPredictProba

SpecTwin == InitTwin /\ [][NextTwin]_vars

(***************************************************************************)
(* Properties.                                                             *)
(***************************************************************************)
Min(a, b) == IF a <= b THEN a ELSE b

\* _fit has returned to its caller
FitDone == pc \in {"estimating", "fitted", "failed"}

\* C1: during and after fit the pool never holds more than max_ensemble_size
\* members, and neither does n_estimators_.
C1_PoolWithinMaximum ==
    /\ Len(estimators_) <= cfg.max_ensemble_size
    /\ n_estimators_ <= cfg.max_ensemble_size

\* a full pool met a further candidate
C1_FullPoolMetCandidate ==
    /\ pc = "fitting"
    /\ Len(estimators_) = cfg.max_ensemble_size
    /\ num_classifiers > cfg.max_ensemble_size

IsDefaultTestParams ==
    /\ cfg.n_parameter_samples = 5
    /\ cfg.max_ensemble_size = 2
    /\ cfg.randomly_selected_params = 3
    /\ cfg.time_limit_in_minutes = 0

\* the candidates _unique_parameters enumerated: those evaluated and those
\* remaining
CandidateSpaceSize == num_classifiers + Len(possible_parameters)

\* C2: once fit has returned, the pool holds min(max_ensemble_size, candidates
\* evaluated) members, weights_ and estimators_ have n_estimators_ entries,
\* and the default test parameters (5, 2, 3) on a non-empty candidate space
\* give two members and two weights.
C2_PoolSizeAfterFit ==
    FitDone =>
        /\ n_estimators_ = Min(cfg.max_ensemble_size, num_classifiers)
        /\ Len(estimators_) = n_estimators_
        /\ Len(weights_) = n_estimators_
        /\ (IsDefaultTestParams /\ CandidateSpaceSize > 0) =>
               (n_estimators_ = 2 /\ Len(weights_) = 2)

\* fit returned under the default test parameters with candidates to evaluate
C2_TestParamsFitted ==
    /\ pc = "fitted"
    /\ IsDefaultTestParams
    /\ CandidateSpaceSize > 0
    /\ n_estimators_ = 2

\* C3: when fit_predict_proba raises for an invalid train_estimate_method, no
\* candidate has been evaluated and estimators_, weights_ and the surrogate
\* history are empty.
C3_InvalidMethodRaisesBeforeFit ==
    (pc = "failed" /\ result = Raised("ValueError")) =>
        /\ num_classifiers = 0
        /\ estimators_ = <<>>
        /\ weights_ = <<>>
        /\ _prev_parameters_x = <<>>
        /\ _prev_parameters_y = <<>>

\* the window sizes _unique_parameters enumerated
EnumeratedWindows ==
    {p[1] : p \in Range(possible_parameters) \cup Range(_prev_parameters_x)}

\* C4: with min_window >= max_window the enumerated window sizes are exactly
\* {max_window}, and fit ends with at least one member.
C4_ClampedWindowIsSearched ==
    (pc # "configured" /\ cfg.min_window >= max_window) =>
        /\ EnumeratedWindows = {max_window}
        /\ FitDone => Len(estimators_) >= 1

\* C5: weights_[k] is (1 / (1 + |MAE|))^4 of the MAE recorded for
\* estimators_[k], it is positive, and of two members the one with the lower
\* MAE has the strictly greater weight.
C5_WeightsFollowMae ==
    /\ Len(weights_) = Len(estimators_)
    /\ \A k \in DOMAIN estimators_ :
        LET m == RatAbs(estimators_[k]._mae)
            w == weights_[k]
        IN  /\ w[1] > 0 /\ w[2] > 0
            /\ w[1] * Pow4(m[1] + m[2]) = w[2] * Pow4(m[2])
    /\ \A j, k \in DOMAIN estimators_ :
        RatLt(estimators_[j]._mae, estimators_[k]._mae)
            => RatLt(weights_[k], weights_[j])

\* the last candidate evaluated replaced a member, and the pool holds
\* members of different MAE
C5_PoolAfterReplacement ==
    /\ num_classifiers > cfg.max_ensemble_size
    /\ \E j, k \in DOMAIN estimators_ :
        /\ estimators_[k].parameters = _prev_parameters_x[num_classifiers]
        /\ RatLt(estimators_[k]._mae, estimators_[j]._mae)

\* C6: every probability row returned by predict_proba and by
\* fit_predict_proba sums to 1.
C6_RowsSumToOne ==
    result.kind = "proba" =>
        \A i \in DOMAIN result.rows : RatSum(result.rows[i]) = One

\* C10: predict and predict_proba answer only an estimator whose fit has
\* completed (configured -> fitting -> fitted); asked before that they raise
\* the not-fitted error and return no labels or probabilities.
C10_InferenceOnlyWhenFitted ==
    /\ [](/\ is_fitted <=> pc = "fitted"
          /\ result.kind \in {"labels", "proba"} => pc = "fitted"
          /\ result = Raised("NotFittedError") => ~is_fitted)
    /\ [][(pc \in {"configured", "failed"} /\ pc' = pc)
              => result' = Raised("NotFittedError")]_vars

\* predict or predict_proba was refused on an estimator never fitted
C10_RefusedBeforeFit ==
    /\ pc = "configured"
    /\ estimators_ = <<>>
    /\ result = Raised("NotFittedError")

\* the words both bags hold
SharedWords == DOMAIN test_bag \cap DOMAIN bag

\* C9: the similarity of two word bags does not depend on their order, and
\* it is the sum of min(A[k], B[k]) over the words k present in both.
C9_SimilarityIsSymmetric ==
    /\ Len(sim) >= 1 =>
           sim[1] = SumInts([k \in 1..MaxWord |->
                               IF k \in SharedWords
                               THEN MinCount(test_bag[k], bag[k]) ELSE 0])
    /\ Len(sim) = 2 => sim[1] = sim[2]

\* both orders were computed for bags that share a word with different
\* counts and that each hold a word the other lacks
C9_BothOrdersCompared ==
    /\ Len(sim) = 2
    /\ \E k \in SharedWords : test_bag[k] # bag[k]
    /\ DOMAIN test_bag # DOMAIN bag

\* fit_predict_proba has returned its leave-one-out estimate
LoocvReturned ==
    /\ pc = "fitted"
    /\ call = "fit_predict_proba"
    /\ Lower(cfg.train_estimate_method) = "loocv"
    /\ result.kind = "proba"

\* the members whose subsample contains case i
Covering(i) ==
    {m \in DOMAIN estimators_ : \E n \in 1..subsample_size :
                                    estimators_[m]._subsample[n] = i}

UniformRow == [k \in 1..n_classes_ |-> Rat(1, n_classes_)]

\* C7 as stated: in the leave-one-out estimate a row of 1/n_classes in every
\* class occurs only for a case covered by no member, so when every case is
\* covered no returned row is that row.
C7_UniformRowOnlyUncovered ==
    LoocvReturned =>
        \A i \in Cases : result.rows[i] = UniformRow => Covering(i) = {}

\* the weight case i received in class column k: that of every member whose
\* subsample holds i at a position n where its kept prediction is class k
C7Votes(i, k) ==
    RatSum([m \in DOMAIN estimators_ |->
               IF \E n \in 1..subsample_size :
                      /\ estimators_[m]._subsample[n] = i
                      /\ _class_dictionary(
                             estimators_[m]._train_predictions[n]) = k
               THEN weights_[m] ELSE Zero])

C7Weight(i) ==
    RatSum([m \in DOMAIN estimators_ |->
               IF m \in Covering(i) THEN weights_[m] ELSE Zero])

\* C7 amended: in the leave-one-out estimate the row of a case is taken from
\* the default branch (1/n_classes) exactly when no member's subsample
\* contains the case; otherwise it is the weight of the covering members'
\* kept predictions per class divided by the weight of exactly the covering
\* members (a row that may itself be uniform when the votes tie).
C7_RowsAggregateCoveringMembers ==
    LoocvReturned =>
        \A i \in Cases :
            /\ result.divisors[i] = C7Weight(i)
            /\ (result.divisors[i] = Zero) <=> (Covering(i) = {})
            /\ Covering(i) = {} => result.rows[i] = UniformRow
            /\ Covering(i) # {} =>
                   \A k \in 1..n_classes_ :
                       result.rows[i][k] = RatDiv(C7Votes(i, k), C7Weight(i))

\* every case is covered, and a case covered by two members got their
\* differing votes
C7_AllCoveredWithSplitVote ==
    /\ LoocvReturned
    /\ \A i \in Cases : Covering(i) # {}
    /\ \E i \in Cases :
           /\ Cardinality(Covering(i)) = 2
           /\ \A k \in 1..n_classes_ :
                  /\ result.rows[i][k] # Zero
                  /\ result.rows[i][k] # Rat(1, n_classes_)

\* both fits have returned
BothFitted == pc = "fitted" /\ twin.pc = "fitted"

\* the two runs evaluated the same candidates in the same order on the same
\* subsamples and hold the same members and weights; their answers to the
\* same query are the same
SameOutcome ==
    /\ _prev_parameters_x = twin.st._prev_parameters_x
    /\ _prev_parameters_y = twin.st._prev_parameters_y
    /\ num_classifiers = twin.st.num_classifiers
    /\ estimators_ = twin.st.estimators_
    /\ weights_ = twin.st.weights_
    /\ n_estimators_ = twin.n_estimators_
    /\ _weight_sum = twin._weight_sum
    /\ result = twin.result

\* C8 as stated: two fits with the same inputs, configuration and integer
\* seed end with the same evaluated candidates, members, weights and
\* predictions, whatever the configuration.
C8_SeededFitsAgree == BothFitted => SameOutcome

\* C8 amended: the same, for a search that is not sized by a time limit
\* (time_limit_in_minutes = 0); during the fit the two runs stay in step.
C8_SeededFitsAgreeUntimed ==
    cfg.time_limit_in_minutes = 0 =>
        /\ BothFitted => SameOutcome
        /\ (pc = "fitting" /\ twin.pc = "fitting") =>
               /\ SameCalls(LoopState, twin.st)
               /\ estimators_ = twin.st.estimators_
               /\ weights_ = twin.st.weights_

\* two untimed fits evaluated two candidates, the second chosen by the
\* surrogate, and answered the same query
C8_TwoUntimedFitsAnswered ==
    /\ cfg.time_limit_in_minutes = 0
    /\ BothFitted
    /\ num_classifiers = 2
    /\ twin.st.num_classifiers = 2
    /\ result.kind = "proba"
    /\ twin.result.kind = "proba"

\* C11: once metadata_ is recorded on an estimator, a later call of
\* _preprocess_collection with other data leaves metadata_ as it was.
C11_MetadataKept ==
    [][Len(base.metadata_) > 0 => base'.metadata_ = base.metadata_]_vars

\* a later call returned for a collection of another shape than the one
\* whose metadata is recorded
C11_SecondCollectionDiffers ==
    /\ base.calls >= 2
    /\ base.outcome = "returned"
    /\ base.metadata_[1] # _get_X_metadata(base.X)

\* C12: _preprocess_collection raises AttributeError on an estimator with
\* the multithreading capability and no n_jobs attribute; without the
\* capability it returns and _n_jobs is 1.
C12_MultithreadingNeedsNJobs ==
    base.calls > 0 =>
        /\ (base.multithreading /\ ~HasNJobs(base))
               => base.outcome = "AttributeError"
        /\ ~base.multithreading
               => (base.outcome = "returned" /\ base._n_jobs = 1)
        /\ base.outcome = "AttributeError"
               => (base.multithreading /\ ~HasNJobs(base))

\* the call was refused for want of n_jobs
C12_RefusedWithoutNJobs ==
    /\ base.calls = 1
    /\ base.multithreading
    /\ base.outcome = "AttributeError"

\* C13: over every sequence of _fit, _transform and _inverse_transform,
\* with fit_in_transform True or False, the transformer handed to the
\* constructor stays as it was; what is fitted or applied is the clone
\* transformer_.
C13_BlueprintUntouched ==
    /\ [][adaptor'.transformer = adaptor.transformer]_vars
    /\ [](adaptor.applied \in {"none", "transformer_"})
    /\ [](adaptor.transformer_.params = adaptor.transformer.params)

\* the clone was fitted on a table the blueprint was not fitted on
C13_CloneFitted ==
    /\ adaptor.applied = "transformer_"
    /\ adaptor.transformer_.fitted_on # <<>>
    /\ adaptor.transformer_.fitted_on # adaptor.transformer.fitted_on
    /\ ~adaptor.fit_in_transform

\* the budget the configuration asks for, read before an iteration
BudgetLeft ==
    IF cfg.time_limit_in_minutes > 0
    THEN /\ train_time < cfg.time_limit_in_minutes * SECONDS_PER_MINUTE
         /\ LtInf(num_classifiers, cfg.contract_max_n_parameter_samples)
    ELSE num_classifiers < cfg.n_parameter_samples

\* C14: with time_limit_in_minutes == 0 an iteration starts only while
\* fewer than n_parameter_samples candidates were evaluated; with a time
\* limit n_parameter_samples is ignored and an iteration starts only while
\* the elapsed time is below the limit and fewer than
\* contract_max_n_parameter_samples candidates were evaluated.  The loop is
\* left only when that budget is spent or no candidate remains, the count
\* never exceeds contract_max_n_parameter_samples, and a started iteration
\* runs to its end whatever the clock reads by then.
C14_ContractSelectsBudget ==
    /\ [][num_classifiers' = num_classifiers + 1 => BudgetLeft]_vars
    /\ [][(pc = "fitting" /\ pc' # "fitting") =>
              (~BudgetLeft \/ Len(possible_parameters) = 0)]_vars
    /\ []((cfg.time_limit_in_minutes > 0
           /\ cfg.contract_max_n_parameter_samples # np_inf) =>
              num_classifiers <= cfg.contract_max_n_parameter_samples)
    /\ [][(pc = "fitting" /\ num_classifiers' = num_classifiers + 1) =>
              /\ pc' = "fitting"
              /\ Len(_prev_parameters_y') = num_classifiers'
              /\ train_time' >= train_time]_vars

\* a timed fit stopped by contract_max_n_parameter_samples: time, candidates
\* and n_parameter_samples were all left
C14_StoppedByContractMaximum ==
    /\ pc = "fitted"
    /\ cfg.time_limit_in_minutes > 0
    /\ num_classifiers = cfg.contract_max_n_parameter_samples
    /\ train_time < time_limit
    /\ Len(possible_parameters) > 0
    /\ num_classifiers < cfg.n_parameter_samples

\* the MAE recorded for the candidate evaluated by the step
C15Recorded == _prev_parameters_y'[num_classifiers']

\* the step put the candidate in slot k and left the other slots alone
C15ReplacedSlot(k) ==
    /\ estimators_[k]._mae = highest_mae
    /\ Len(estimators_') = Len(estimators_)
    /\ Len(weights_') = Len(weights_)
    /\ estimators_'[k].parameters = _prev_parameters_x'[num_classifiers']
    /\ estimators_'[k]._mae = C15Recorded
    /\ weights_'[k] = MemberWeight(C15Recorded)
    /\ \A j \in DOMAIN estimators_ \ {k} :
        /\ estimators_'[j] = estimators_[j]
        /\ weights_'[j] = weights_[j]

\* C15: with max_ensemble_size members in the pool, an evaluated candidate
\* replaces a member exactly when its MAE is strictly below the highest MAE
\* in the pool, and the member replaced is one of that highest MAE; on an
\* equal or higher MAE estimators_ and weights_ stay as they are.
\* (highest_mae, highest_mae_idx) always names a pool member whose recorded
\* MAE is the maximum of the pool.
C15_ReplacesWorstIffStrictlyBetter ==
    /\ [][(num_classifiers' = num_classifiers + 1
           /\ Len(estimators_) = cfg.max_ensemble_size) =>
              IF RatLt(C15Recorded, highest_mae)
              THEN \E k \in DOMAIN estimators_ : C15ReplacedSlot(k)
              ELSE estimators_' = estimators_ /\ weights_' = weights_]_vars
    /\ [](Len(estimators_) > 0 =>
              /\ highest_mae_idx + 1 \in DOMAIN estimators_
              /\ estimators_[highest_mae_idx + 1]._mae = highest_mae
              /\ \A k \in DOMAIN estimators_ :
                     ~RatLt(highest_mae, estimators_[k]._mae))

\* the last candidate took the second slot of a full pool: the member
\* evaluated second had the highest MAE and the candidate a lower one
C15_SecondSlotReplaced ==
    /\ num_classifiers = cfg.max_ensemble_size + 1
    /\ Len(estimators_) = 2
    /\ estimators_[1].parameters = _prev_parameters_x[1]
    /\ estimators_[2].parameters = _prev_parameters_x[num_classifiers]
    /\ RatLt(_prev_parameters_y[1], _prev_parameters_y[2])
    /\ RatLt(estimators_[2]._mae, _prev_parameters_y[2])

\* C16: within one fit the history only grows.  Each evaluated candidate,
\* appended, used as a replacement or rejected, adds one Parameter Vector
\* and one recorded MAE, so both lists are as long as the number of
\* candidates evaluated; no entry is removed or rewritten; and no Parameter
\* Vector is recorded twice, the chosen candidate leaving the remaining
\* pool.
C16_HistoryOnlyGrows ==
    /\ [](/\ Len(_prev_parameters_x) = num_classifiers
          /\ Len(_prev_parameters_y) = num_classifiers)
    /\ [](\A i, j \in DOMAIN _prev_parameters_x :
              _prev_parameters_x[i] = _prev_parameters_x[j] => i = j)
    /\ [](\A i \in DOMAIN _prev_parameters_x,
             j \in DOMAIN possible_parameters :
              _prev_parameters_x[i] # possible_parameters[j])
    /\ [][pc = "fitting" =>
              \/ /\ _prev_parameters_x' = _prev_parameters_x
                 /\ _prev_parameters_y' = _prev_parameters_y
                 /\ num_classifiers' = num_classifiers
              \/ /\ num_classifiers' = num_classifiers + 1
                 /\ Len(_prev_parameters_x') = Len(_prev_parameters_x) + 1
                 /\ Len(_prev_parameters_y') = Len(_prev_parameters_y) + 1
                 /\ SubSeq(_prev_parameters_x', 1, num_classifiers)
                        = _prev_parameters_x
                 /\ SubSeq(_prev_parameters_y', 1, num_classifiers)
                        = _prev_parameters_y
                 /\ Len(possible_parameters')
                        = Len(possible_parameters) - 1]_vars

\* three candidates are in the history of a pool of two: two appended, and
\* the last rejected, recorded as 100 and in no slot of the pool
C16_RejectedCandidateRecorded ==
    /\ num_classifiers = 3
    /\ Len(estimators_) = 2
    /\ _prev_parameters_y[3] = Rat(REJECT_MAE, 1)
    /\ \A k \in DOMAIN estimators_ :
           estimators_[k].parameters # _prev_parameters_x[3]

\* every candidate evaluated so far was drawn by the random pop
C17AllRandom == \A j \in DOMAIN search_log : search_log[j].branch = "random"

C18Space == Len(_unique_parameters(cfg.min_window, max_window, win_inc))

\* C18: the search loop always terminates.  Each iteration takes exactly
\* one candidate out of the remaining pool, so the candidates evaluated and
\* those remaining always add up to the candidate space and no more than
\* that many iterations run; with the time limit disabled exactly
\* min(n_parameter_samples, |candidate space|) candidates are evaluated; and
\* a loop whose pool empties before its budget returns, without error, the
\* pool it built.
C18_SearchLoopTerminates ==
    /\ [](pc # "configured" =>
              /\ num_classifiers + Len(possible_parameters) = C18Space
              /\ num_classifiers <= C18Space)
    /\ [][num_classifiers' = num_classifiers + 1 =>
              Len(possible_parameters') = Len(possible_parameters) - 1]_vars
    /\ []((pc = "fitted" /\ cfg.time_limit_in_minutes = 0) =>
              num_classifiers = Min(cfg.n_parameter_samples, C18Space))
    /\ [](pc = "fitted" =>
              /\ is_fitted
              /\ result.kind # "error"
              /\ n_estimators_ = Min(cfg.max_ensemble_size, num_classifiers)
              /\ Len(estimators_) = n_estimators_)
    /\ (pc = "fitting" ~> pc = "fitted")

\* fit returned with its pool empty of candidates and its budget of
\* n_parameter_samples not reached
C18_PoolEmptiedBeforeBudget ==
    /\ pc = "fitted"
    /\ cfg.time_limit_in_minutes = 0
    /\ Len(possible_parameters) = 0
    /\ num_classifiers > 0
    /\ num_classifiers < cfg.n_parameter_samples
    /\ Len(estimators_) = cfg.max_ensemble_size

\* the threshold handed to _individual_train_mae for candidate j
C19Threshold(j) ==
    IF search_log[j].pool < cfg.max_ensemble_size
    THEN Rat(REJECT_MAE, 1) ELSE search_log[j].highest_mae

\* candidate j is in the history with 100 in place of its own MAE
C19Capped(j) ==
    /\ _prev_parameters_y[j] = Rat(REJECT_MAE, 1)
    /\ search_log[j].mae # Rat(REJECT_MAE, 1)

\* candidate j was capped although its own MAE was below the highest MAE
\* of the pool it met
C19Masked(j) ==
    /\ C19Capped(j)
    /\ search_log[j].pool > 0
    /\ RatLt(search_log[j].mae, search_log[j].highest_mae)

C20Sim(n) ==
    histogram_intersection(member._transformed_data[member.train_num],
                           member._transformed_data[n])

\* the stored bags other than the case asked about
C20Others == DOMAIN member._transformed_data \ {member.train_num}

\* C20: _train_predict(i) over at least two stored bags returns the label
\* of the lowest-index bag j # i whose similarity to bag i is the maximum
\* over all j # i; the case itself is never the neighbour and of bags of
\* equal similarity the first one wins.
C20_FirstNearestOtherBag ==
    member.train_num > 0 =>
        \E j \in C20Others :
            /\ \A k \in C20Others : C20Sim(k) <= C20Sim(j)
            /\ \A k \in C20Others : C20Sim(k) = C20Sim(j) => j <= k
            /\ member.nn = <<member._class_vals[j]>>
            /\ member.nn # <<member._class_vals[member.train_num]>>

\* the middle case of three was asked about: it is more similar to itself
\* than to the others, the others are equally similar to it, and the first
\* one was returned
C20_TieWonByFirst ==
    /\ member.train_num = 2
    /\ Len(member._transformed_data) = 3
    /\ C20Sim(1) = C20Sim(3)
    /\ C20Sim(1) > 0
    /\ C20Sim(2) > C20Sim(1)
    /\ member.nn = <<member._class_vals[1]>>

\* what the sequential loop over the member's cases predicts
C21Predictions ==
    [i \in DOMAIN member._class_vals |-> _train_predict(member, i)[1]]

\* C21: member evaluation gives the same MAE and the same _train_predictions
\* (position n holding the prediction for case n of the subsample) with
\* n_jobs > 1, whatever the order in which the workers finish, as the
\* sequential loop; and the member is not written before every worker has
\* finished.
C21_ParallelEqualsSequential ==
    /\ [](member.at = "returned" =>
              /\ member._mae =
                     _individual_train_mae(member._class_vals, C21Predictions,
                                           Len(member._class_vals),
                                           member.highest_mae)
              /\ member._train_predictions =
                     IF member.keep_train_preds THEN C21Predictions ELSE <<>>)
    /\ [][(member.at = "parallel" /\ member.pending # {}) =>
              /\ member'._train_predictions = member._train_predictions
              /\ member'._mae = member._mae
              /\ member'._transformed_data = member._transformed_data
              /\ member'._class_vals = member._class_vals]_vars
    /\ [][member'._mae # member._mae =>
              (member.pending = {} /\ member'.at = "returned")]_vars

\* a parallel evaluation returned whose workers finished in the reverse of
\* the order of the calls, with predictions that differ between cases
C21_ReverseOrderJoined ==
    /\ member.at = "returned"
    /\ member._n_jobs > 1
    /\ member.keep_train_preds
    /\ member.finished = <<3, 2, 1>>
    /\ member._train_predictions[1] # member._train_predictions[3]

\* min_mae * (1 + (1 - dim_threshold)) of the member
C22Bound ==
    RatMul(MinMae(member.maes),
           RatAdd(One, RatSub(One, member.dim_threshold)))

\* the channels (0-based) whose MAE is within the bound
C22Accepted ==
    {i \in 0..(member.n_channels_ - 1) : RatLe(member.maes[i + 1], C22Bound)}

\* C22: the Channel Selector returns channel i only if
\* MAE[i] <= min_mae * (1 + (1 - dim_threshold)); if at most max_dims
\* channels pass it returns exactly those, otherwise exactly max_dims
\* distinct ones of them; and the k-th transformer returned is the one
\* fitted on the k-th channel returned.
C22_SelectedChannelsAndTransformers ==
    member.at = "selected" =>
        /\ \A k \in DOMAIN member._dims : member._dims[k] \in C22Accepted
        /\ \A j, k \in DOMAIN member._dims :
               member._dims[j] = member._dims[k] => j = k
        /\ IF Cardinality(C22Accepted) <= member.max_dims
           THEN Range(member._dims) = C22Accepted
           ELSE Len(member._dims) = member.max_dims
        /\ Len(member._transformers) = Len(member._dims)
        /\ \A k \in DOMAIN member._dims :
               member._transformers[k].fitted_on = member._dims[k]

\* three channels passed, two were drawn, and not in ascending order
C22_TwoOfThreeDrawn ==
    /\ member.at = "selected"
    /\ Cardinality(C22Accepted) = 3
    /\ member.max_dims = 2
    /\ Len(member._dims) = 2
    /\ member._dims[1] > member._dims[2]
    /\ member._transformers[1].fitted_on = member._dims[1]

\* C24: for n_channels >= 2, dim_threshold <= 1 and max_dims >= 1 the
\* channel of the minimum MAE passes the acceptance test, also when the
\* minimum is 0, so at least one and at most max_dims channels are
\* returned.
C24_SelectorReturnsAChannel ==
    (/\ member.at = "selected"
     /\ member.n_channels_ >= 2
     /\ RatLe(member.dim_threshold, One)
     /\ member.max_dims >= 1) =>
        /\ \A i \in 0..(member.n_channels_ - 1) :
               member.maes[i + 1] = MinMae(member.maes) => i \in C22Accepted
        /\ Len(member._dims) >= 1
        /\ Len(member._dims) <= member.max_dims
        /\ Len(member._transformers) >= 1

\* the minimum MAE is 0, the threshold factor is 1, and the one channel that
\* attains the minimum was returned while another was not
C24_ZeroMinimumSelected ==
    /\ member.at = "selected"
    /\ member.dim_threshold = One
    /\ member.max_dims >= 1
    /\ MinMae(member.maes) = Zero
    /\ Len(member._dims) = 1
    /\ Cardinality(C22Accepted) = 1
    /\ member.n_channels_ = 3

\* the merged bag holds, for every selected channel and every word of it,
\* that channel's count under the packed key, and nothing else
C23Merged(merged, X) ==
    /\ \A i \in DOMAIN member._dims : \A word \in X[i] :
        LET key == Pack(word, member._highest_dim_bit, member._dims[i])
        IN  key \in DOMAIN merged /\ merged[key] = member._dims[i] + 1
    /\ Cardinality(DOMAIN merged) =
           SumInts([i \in DOMAIN member._dims |-> Cardinality(X[i])])

\* C23: with highest_dim_bit = ceil(log2(n_channels)) + 1 the packing
\* (w << highest_dim_bit) | d is one-to-one over non-negative words and
\* channels d < n_channels; predict packs with the highest_dim_bit of fit;
\* so in a merged bag, at fit and at predict, no channel's count is
\* overwritten by another's.
C23_PackingIsCollisionFree ==
    /\ [](member.at # "constructed" =>
              /\ member._highest_dim_bit = CeilLog2(member.n_channels_) + 1
              /\ \A w1, w2 \in PackedWords :
                  \A d1, d2 \in 0..(member.n_channels_ - 1) :
                     Pack(w1, member._highest_dim_bit, d1)
                         = Pack(w2, member._highest_dim_bit, d2)
                     => (w1 = w2 /\ d1 = d2)
              /\ C23Merged(member._transformed_data, member.X_train))
    /\ [](member.at = "predicted" =>
              C23Merged(member.test_bags, member.X_test))
    /\ [][member.at = "fitted" =>
              /\ member'._highest_dim_bit = member._highest_dim_bit
              /\ member'._dims = member._dims
              /\ member'._transformed_data = member._transformed_data]_vars

\* three channels, all selected, each with the words 0 and 1 at fit and at
\* predict: both merged bags hold six counts
C23_ThreeChannelsMerged ==
    /\ member.at = "predicted"
    /\ member.n_channels_ = 3
    /\ Len(member._dims) = 3
    /\ Cardinality(DOMAIN member._transformed_data) = 6
    /\ Cardinality(DOMAIN member.test_bags) = 6

\* candidate j of the history is a member of the pool
C25Retained(j) ==
    \E k \in DOMAIN estimators_ :
        estimators_[k].parameters = _prev_parameters_x[j]

\* C25: the pool holds the best candidates seen.  No candidate that was
\* evaluated and then rejected or evicted has a true MAE strictly below the
\* recorded MAE of a retained member, and no candidate whose MAE was capped
\* to 100 is put into a full pool.
C25_PoolHoldsBestSeen ==
    /\ [](\A j \in DOMAIN search_log :
              ~C25Retained(j) =>
                  \A k \in DOMAIN estimators_ :
                      ~RatLt(search_log[j].mae, estimators_[k]._mae))
    /\ [](\A j \in DOMAIN search_log :
              (C25Retained(j) /\ search_log[j].pool = cfg.max_ensemble_size)
                  => _prev_parameters_y[j] = search_log[j].mae)
    /\ [][(num_classifiers' = num_classifiers + 1
           /\ Len(estimators_) = cfg.max_ensemble_size
           /\ estimators_' # estimators_) =>
              /\ _prev_parameters_y'[num_classifiers']
                     = search_log'[num_classifiers'].mae
              /\ RatLt(_prev_parameters_y'[num_classifiers'],
                       Rat(REJECT_MAE, 1))]_vars

\* fit returned with a pool of two after evicting a member of a higher MAE
\* than both members retained
C25_WorseMemberEvicted ==
    /\ pc = "fitted"
    /\ Len(estimators_) = 2
    /\ \E j \in DOMAIN search_log :
        /\ search_log[j].pool < cfg.max_ensemble_size
        /\ ~C25Retained(j)
        /\ \A k \in DOMAIN estimators_ :
               RatLt(estimators_[k]._mae, search_log[j].mae)

====
